---- MODULE Spec2Model ----
(***************************************************************************)
(* A model of the cellshift dataset handle (class CS) and of the           *)
(* operations that rewrite its canonical DuckDB table.                     *)
(*                                                                         *)
(* The engine state is the catalog entry of the canonical table (whether   *)
(* it exists, its column names and declared types, its rows with their     *)
(* rowids), the set of registered temporary views, and the relation the    *)
(* handle caches in self.data (a relation keeps the column list it was     *)
(* bound with, whatever happens to the table afterwards).  Every public    *)
(* method is one action: it runs the statements of the method in order,    *)
(* and the parameter f names the statement (if any) at which the engine    *)
(* raises an error the arguments do not explain (I/O, memory, interrupt).  *)
(***************************************************************************)
EXTENDS Integers, Sequences, FiniteSets, TLC

(***************************************************************************)
(* Bounds of the model.                                                    *)
(***************************************************************************)
MaxRows == 2      \* rows loaded by the constructor; add_data never exceeds MaxRows + 1
MaxOps == 3       \* public calls made on one handle in one behaviour
MaxNames == 3     \* names drawn from the naming generator in one behaviour
MaxGenOps == 2    \* calls made on one handle in a behaviour of the generators
MaxMailRows == 10 \* rows of a table of mail addresses
MaxMailOps == 2   \* calls made on one handle over such a table

(***************************************************************************)
(* Cells.  A cell is SQL NULL, a BIGINT, a DOUBLE, a VARCHAR (a sequence   *)
(* of one-character strings) or a two-element list.                        *)
(***************************************************************************)
Null == [k |-> "null"]
IntC(n) == [k |-> "int", i |-> n]
DblC(n) == [k |-> "dbl", d |-> n]
StrC(s) == [k |-> "str", s |-> s]
ListC(a, b) == [k |-> "list", lo |-> a, hi |-> b]

IsNull(c) == c.k = "null"

\* The declared type under which a cell of kind k is stored.
TypeOfKind(k) ==
  CASE k = "int" -> "BIGINT"
    [] k = "dbl" -> "DOUBLE"
    [] k = "str" -> "VARCHAR"
    [] k = "list" -> "BIGINT[]"
    [] OTHER -> "INTEGER"

(***************************************************************************)
(* Column names.  Python's str.lower() and str.isidentifier() on the       *)
(* names the model uses.                                                   *)
(***************************************************************************)
Lower(n) ==
  CASE n = "A" -> "a"
    [] n = "B" -> "b"
    [] n = "Z" -> "z"
    [] OTHER -> n

IsIdentifier(n) == n \notin {"9z", "a b"}

LowerAll(names) == [i \in 1..Len(names) |-> Lower(names[i])]

\* x in list (Python's `in` on a list).
InList(x, list) == \E i \in 1..Len(list) : list[i] = x

\* list.index(x): the first position holding x.
IndexOf(x, list) == CHOOSE i \in 1..Len(list) : list[i] = x /\ \A j \in 1..(i - 1) : list[j] /= x

(***************************************************************************)
(* The catalog entry of the canonical table.                               *)
(***************************************************************************)
NoTable == [exists |-> FALSE, cols |-> <<>>, types |-> <<>>, rows |-> <<>>, hwm |-> 0]

\* Rows numbered 0..n-1, as CREATE TABLE ... AS SELECT stores them.
Renumber(valsSeq) == [i \in 1..Len(valsSeq) |-> [rid |-> i - 1, vals |-> valsSeq[i]]]

MkTable(cols, types, valsSeq) ==
  [exists |-> TRUE, cols |-> cols, types |-> types,
   rows |-> Renumber(valsSeq), hwm |-> Len(valsSeq)]

\* The values of the rows in scan order, without their rowids.
Vals(t) == [i \in 1..Len(t.rows) |-> t.rows[i].vals]

RowCount(t) == Len(t.rows)

\* DuckDB resolves a quoted identifier case-insensitively.
HasCol(t, name) == t.exists /\ InList(Lower(name), LowerAll(t.cols))
ColPos(t, name) == IndexOf(Lower(name), LowerAll(t.cols))

\* The cells of one column, in scan order.
Column(t, name) == [i \in 1..Len(t.rows) |-> t.rows[i].vals[ColPos(t, name)]]

(***************************************************************************)
(* self.data: None, a relation bound to the canonical table, or a relation *)
(* bound to some other query.  cols is relation.columns.                   *)
(***************************************************************************)
NoData == [kind |-> "none", cols |-> <<>>]
TableRel(t) == [kind |-> "table", cols |-> t.cols]
QueryRel(cols) == [kind |-> "query", cols |-> cols]

(***************************************************************************)
(* Results of a call: the engine state it leaves and how it ended.         *)
(*   out = "ok"          the call returned                                 *)
(*   out = "ValueError"  (or "TypeError") raised by the method's own checks*)
(*   out = "EngineError" raised by a statement the engine executed         *)
(***************************************************************************)
St(t, views, data) == [t |-> t, views |-> views, data |-> data]
\* ret is what the call hands back: "self", "None", a relation ("rel"), or
\* nothing because it raised ("raised").
Ok(s) == [s |-> s, out |-> "ok", err |-> "none", ret |-> "self"]
OkNone(s) == [s |-> s, out |-> "ok", err |-> "none", ret |-> "None"]
OkRel(s) == [s |-> s, out |-> "ok", err |-> "none", ret |-> "rel"]
Raise(s, out, err) == [s |-> s, out |-> out, err |-> err, ret |-> "raised"]

(***************************************************************************)
(* Text of numbers: Python's str(int) and the engine's casts between       *)
(* VARCHAR and the numeric types.                                          *)
(***************************************************************************)
DigitChars == <<"0", "1", "2", "3", "4", "5", "6", "7", "8", "9">>

IsDigitChar(ch) == InList(ch, DigitChars)

RECURSIVE NatDigits(_)
NatDigits(n) ==
  IF n < 10 THEN <<DigitChars[n + 1]>>
  ELSE NatDigits(n \div 10) \o <<DigitChars[(n % 10) + 1]>>

\* str(n) for an int n.
IntText(n) == IF n < 0 THEN <<"-">> \o NatDigits(0 - n) ELSE NatDigits(n)

\* str.isdigit() on a non-empty text.
AllDigits(s) == Len(s) > 0 /\ \A i \in 1..Len(s) : IsDigitChar(s[i])

RECURSIVE NatOfDigits(_)
NatOfDigits(s) ==
  IF Len(s) = 0 THEN 0
  ELSE 10 * NatOfDigits(SubSeq(s, 1, Len(s) - 1)) + (IndexOf(s[Len(s)], DigitChars) - 1)

\* A text the engine can cast to a number: an integer, or the text of a whole
\* DOUBLE ("12.0").
IsWholeText(s) ==
  \/ AllDigits(s)
  \/ Len(s) > 1 /\ s[1] = "-" /\ AllDigits(Tail(s))

IsIntText(s) ==
  \/ IsWholeText(s)
  \/ Len(s) > 2 /\ SubSeq(s, Len(s) - 1, Len(s)) = <<".", "0">>
               /\ IsWholeText(SubSeq(s, 1, Len(s) - 2))

WholePart(s) ==
  IF Len(s) > 2 /\ s[Len(s) - 1] = "." THEN SubSeq(s, 1, Len(s) - 2) ELSE s

IntOfText(s) ==
  IF WholePart(s)[1] = "-" THEN 0 - NatOfDigits(Tail(WholePart(s)))
  ELSE NatOfDigits(WholePart(s))

\* CAST(cell AS type): ok is FALSE where the engine raises a conversion error.
CastCell(c, type) ==
  IF c.k = "null" THEN [ok |-> TRUE, c |-> Null]
  ELSE IF type = "VARCHAR" THEN
    [ok |-> TRUE,
     c |-> CASE c.k = "int" -> StrC(IntText(c.i))
             [] c.k = "dbl" -> StrC(IntText(c.d) \o <<".", "0">>)
             [] c.k = "list" -> StrC(<<"[">> \o IntText(c.lo) \o <<",", " ">> \o IntText(c.hi) \o <<"]">>)
             [] OTHER -> c]
  ELSE IF type = "BIGINT" THEN
    CASE c.k = "int" -> [ok |-> TRUE, c |-> c]
      [] c.k = "dbl" -> [ok |-> TRUE, c |-> IntC(c.d)]
      [] c.k = "str" -> IF IsIntText(c.s) THEN [ok |-> TRUE, c |-> IntC(IntOfText(c.s))]
                        ELSE [ok |-> FALSE, c |-> c]
      [] OTHER -> [ok |-> FALSE, c |-> c]
  ELSE IF type = "DOUBLE" THEN
    CASE c.k = "int" -> [ok |-> TRUE, c |-> DblC(c.i)]
      [] c.k = "dbl" -> [ok |-> TRUE, c |-> c]
      [] c.k = "str" -> IF IsIntText(c.s) THEN [ok |-> TRUE, c |-> DblC(IntOfText(c.s))]
                        ELSE [ok |-> FALSE, c |-> c]
      [] OTHER -> [ok |-> FALSE, c |-> c]
  ELSE [ok |-> FALSE, c |-> c]

IsTypeName(type) == type \in {"VARCHAR", "BIGINT", "DOUBLE"}

(***************************************************************************)
(* Statements of the engine.                                               *)
(***************************************************************************)
\* SELECT "src_1" AS "as_1", ... FROM the canonical table.  srcs are the
\* referenced names and outs the result names; ok is FALSE where the binder
\* raises (no such table, no such column).
Project(t, srcs, outs) ==
  IF ~t.exists \/ \E i \in 1..Len(srcs) : ~HasCol(t, srcs[i])
  THEN [ok |-> FALSE, cols |-> <<>>, types |-> <<>>, vals |-> <<>>]
  ELSE [ok |-> TRUE,
        cols |-> outs,
        types |-> [i \in 1..Len(srcs) |-> t.types[ColPos(t, srcs[i])]],
        vals |-> [r \in 1..Len(t.rows) |->
                    [i \in 1..Len(srcs) |-> t.rows[r].vals[ColPos(t, srcs[i])]]]]

\* The result name of an unaliased column reference is the column's own name.
StoredName(t, name) == IF HasCol(t, name) THEN t.cols[ColPos(t, name)] ELSE name
StoredNames(t, names) == [i \in 1..Len(names) |-> StoredName(t, names[i])]

\* SELECT "c_1", ..., t2."name" FROM table AS t1 POSITIONAL JOIN view AS t2,
\* the view holding the one column `name` with the cells vec.  An unqualified
\* reference that also matches the view's column is ambiguous.  A positional
\* join pads the shorter side with NULLs.
PositionalJoin(t, cols, vec, vtype, name) ==
  LET p == Project(t, cols, StoredNames(t, cols))
      n == IF Len(t.rows) > Len(vec) THEN Len(t.rows) ELSE Len(vec)
  IN IF ~p.ok \/ \E i \in 1..Len(cols) : Lower(cols[i]) = Lower(name)
     THEN [ok |-> FALSE, cols |-> <<>>, types |-> <<>>, vals |-> <<>>]
     ELSE [ok |-> TRUE,
           cols |-> Append(p.cols, name),
           types |-> Append(p.types, vtype),
           vals |-> [r \in 1..n |->
                       Append(IF r <= Len(p.vals) THEN p.vals[r]
                              ELSE [i \in 1..Len(cols) |-> Null],
                              IF r <= Len(vec) THEN vec[r] ELSE Null)]]

\* The swap every rewrite ends with:
\*   new_data = cx.execute(query).fetch_arrow_table()        statement f0 + 1
\*   DROP TABLE IF EXISTS "<canonical>"                       statement f0 + 2
\*   CREATE TABLE "<canonical>" AS SELECT * FROM new_data     statement f0 + 3
\*   self.data = cx.table(<canonical>)
\* A statement that raises has no effect of its own; the ones before it stand.
Swap(s, p, f, f0) ==
  IF f = f0 + 1 \/ ~p.ok THEN Raise(s, "EngineError", "select")
  ELSE IF f = f0 + 2 THEN Raise(s, "EngineError", "drop")
  ELSE IF f = f0 + 3 THEN Raise([s EXCEPT !.t = NoTable], "EngineError", "create")
  ELSE LET nt == MkTable(p.cols, p.types, p.vals)
       IN Ok(St(nt, s.views, TableRel(nt)))

(***************************************************************************)
(* columns.py                                                              *)
(***************************************************************************)
\* A variant of Unregister that leaves the view registered.
KeepRegistered(r, vid) == r

\* cx.unregister(view) applied to the state a result carries.
Unregister(r, vid) == [r EXCEPT !.s.views = @ \ {vid}]

\* A variant of add_column without the comparison of the two counts.
AddColumnUnchecked(s, vid, vec, vtype, name, f) ==
  IF s.data.kind = "none" THEN Raise(s, "ValueError", "no_data")
  ELSE IF ~IsIdentifier(name) THEN Raise(s, "ValueError", "not_identifier")
  ELSE
    LET reg == [s EXCEPT !.views = @ \cup {vid}]
    IN IF f = 1 \/ ~s.t.exists THEN Raise(reg, "EngineError", "count")
       ELSE IF f = 2 THEN Raise(reg, "EngineError", "count")
       ELSE Unregister(Swap(reg, PositionalJoin(s.t, s.data.cols, vec, vtype, name), f, 2), vid)

\* add_column(column_object, column_name) for a list (or a one-column
\* relation whose column is column_name) holding the cells vec of type vtype.
\* vid is the name of the temporary view, _temp_df_<id of the relation>.
\* Statements: 1 count of the table, 2 count of the view, 3 the positional
\* join, 4 DROP, 5 CREATE.
AddColumn(s, vid, vec, vtype, name, f) ==
  IF s.data.kind = "none" THEN Raise(s, "ValueError", "no_data")
  ELSE IF ~IsIdentifier(name) THEN Raise(s, "ValueError", "not_identifier")
  ELSE
    LET reg == [s EXCEPT !.views = @ \cup {vid}]
    IN IF f = 1 \/ ~s.t.exists THEN Raise(reg, "EngineError", "count")
       ELSE IF f = 2 THEN Raise(reg, "EngineError", "count")
       ELSE IF RowCount(s.t) /= Len(vec)
       THEN Unregister(Raise(reg, "ValueError", "length_mismatch"), vid)
       ELSE Unregister(Swap(reg, PositionalJoin(s.t, s.data.cols, vec, vtype, name), f, 2), vid)

\* drop_column(column_names).  Statements: 1 SELECT, 2 DROP, 3 CREATE.
DropColumn(s, names, f) ==
  IF s.data.kind = "none" THEN Raise(s, "ValueError", "no_data")
  ELSE IF names = <<>> THEN OkNone(s)
  ELSE IF \E i \in 1..Len(names) : ~InList(Lower(names[i]), LowerAll(s.data.cols))
  THEN Raise(s, "ValueError", "unknown_column")
  ELSE
    LET keep == SelectSeq(s.data.cols, LAMBDA c : ~InList(Lower(c), LowerAll(names)))
    IN IF keep = <<>> THEN Raise(s, "ValueError", "drop_all")
       ELSE Swap(s, Project(s.t, keep, StoredNames(s.t, keep)), f, 0)

\* replace_column(column_to_replace, replace_column).  Statements: 1 SELECT,
\* 2 DROP, 3 CREATE.
ReplaceColumn(s, targets, sources, f) ==
  IF s.data.kind = "none" THEN Raise(s, "ValueError", "no_data")
  ELSE IF targets = <<>> \/ sources = <<>> THEN Raise(s, "ValueError", "empty_list")
  ELSE IF Len(targets) /= Len(sources) THEN Raise(s, "ValueError", "list_length")
  ELSE IF \E i \in 1..Len(targets) :
            \/ ~InList(Lower(targets[i]), LowerAll(s.data.cols))
            \/ ~InList(Lower(sources[i]), LowerAll(s.data.cols))
  THEN Raise(s, "ValueError", "unknown_column")
  ELSE
    LET cols == s.data.cols
        srcs == [i \in 1..Len(cols) |->
                   IF InList(Lower(cols[i]), LowerAll(targets))
                   THEN sources[IndexOf(Lower(cols[i]), LowerAll(targets))]
                   ELSE cols[i]]
        outs == [i \in 1..Len(cols) |->
                   IF InList(Lower(cols[i]), LowerAll(targets))
                   THEN cols[i]
                   ELSE StoredName(s.t, cols[i])]
    IN Swap(s, Project(s.t, srcs, outs), f, 0)

\* ALTER TABLE ... RENAME COLUMN "old" TO "new": ok is FALSE where the engine
\* raises (no table, no such column, a column of that name already there).
RenameStmt(t, old, new) ==
  IF ~HasCol(t, old) \/ HasCol(t, new) THEN [ok |-> FALSE, t |-> t]
  ELSE [ok |-> TRUE, t |-> [t EXCEPT !.cols[ColPos(t, old)] = new]]

\* The loop of rename_column from pair i on; statement i is the i-th ALTER.
RECURSIVE RenameLoop(_, _, _, _, _, _)
RenameLoop(t, dcols, olds, news, i, f) ==
  IF i > Len(olds) THEN [ok |-> TRUE, t |-> t]
  ELSE
    LET actual == IF InList(Lower(olds[i]), LowerAll(dcols))
                  THEN dcols[IndexOf(Lower(olds[i]), LowerAll(dcols))]
                  ELSE olds[i]
        r == RenameStmt(t, actual, news[i])
    IN IF f = i \/ ~r.ok THEN [ok |-> FALSE, t |-> t]
       ELSE RenameLoop(r.t, dcols, olds, news, i + 1, f)

\* The checks rename_column makes on each pair before its first statement.
\* A new name that is already a column of the table passes them: the branch
\* that detects it is `pass`.
RenameChecks(dcols, olds, news) ==
  IF \E i \in 1..Len(olds) :
       /\ \A j \in 1..(i - 1) :
            InList(Lower(olds[j]), LowerAll(dcols)) /\ IsIdentifier(news[j])
       /\ ~InList(Lower(olds[i]), LowerAll(dcols))
  THEN "unknown_column"
  ELSE IF \E i \in 1..Len(olds) : ~IsIdentifier(news[i]) THEN "not_identifier"
  ELSE "none"

\* rename_column(base_column, new_column_name).
RenameColumn(s, olds, news, f) ==
  IF s.data.kind = "none" THEN Raise(s, "ValueError", "no_data")
  ELSE IF Len(olds) /= Len(news) THEN Raise(s, "ValueError", "list_length")
  ELSE IF olds = <<>> THEN Ok(s)
  ELSE IF RenameChecks(s.data.cols, olds, news) /= "none"
  THEN Raise(s, "ValueError", RenameChecks(s.data.cols, olds, news))
  ELSE
    LET r == RenameLoop(s.t, s.data.cols, olds, news, 1, f)
    IN IF r.ok THEN Ok(St(r.t, s.views, TableRel(r.t)))
       ELSE Raise([s EXCEPT !.t = r.t], "EngineError", "alter")

\* ALTER TABLE ... ALTER COLUMN "col" SET DATA TYPE type.
RetypeStmt(t, col, type) ==
  IF ~HasCol(t, col) \/ ~IsTypeName(type)
     \/ \E r \in 1..Len(t.rows) : ~CastCell(t.rows[r].vals[ColPos(t, col)], type).ok
  THEN [ok |-> FALSE, t |-> t]
  ELSE [ok |-> TRUE,
        t |-> [t EXCEPT !.types[ColPos(t, col)] = type,
                        !.rows = [r \in 1..Len(t.rows) |->
                                    [t.rows[r] EXCEPT !.vals[ColPos(t, col)] =
                                       CastCell(@, type).c]]]]

\* The loop of set_column_type from pair i on; statement i is the i-th ALTER.
RECURSIVE RetypeLoop(_, _, _, _, _, _)
RetypeLoop(t, dcols, names, types, i, f) ==
  IF i > Len(names) THEN [ok |-> TRUE, t |-> t]
  ELSE
    LET actual == dcols[IndexOf(Lower(names[i]), LowerAll(dcols))]
        r == RetypeStmt(t, actual, types[i])
    IN IF f = i \/ ~r.ok THEN [ok |-> FALSE, t |-> t]
       ELSE RetypeLoop(r.t, dcols, names, types, i + 1, f)

\* set_column_type(column_name, new_type).
SetColumnType(s, names, types, f) ==
  IF s.data.kind = "none" THEN Raise(s, "ValueError", "no_data")
  ELSE IF Len(names) /= Len(types) THEN Raise(s, "ValueError", "list_length")
  ELSE IF names = <<>> THEN Ok(s)
  ELSE IF \E i \in 1..Len(names) : ~InList(Lower(names[i]), LowerAll(s.data.cols))
  THEN Raise(s, "ValueError", "unknown_column")
  ELSE
    LET r == RetypeLoop(s.t, s.data.cols, names, types, 1, f)
    IN IF r.ok THEN Ok(St(r.t, s.views, TableRel(r.t)))
       ELSE Raise([s EXCEPT !.t = r.t], "EngineError", "alter")

(***************************************************************************)
(* rows.py                                                                 *)
(***************************************************************************)
\* A condition template, with the placeholder replaced by one column:
\*   "is_null"      ? IS NULL           "is_not_null"  ? IS NOT NULL
\*   "gt"           ? > k
\*   "no_meta"      a template that does not contain the placeholder
\*   "syntax"       a template the engine cannot parse
\* Truth of a condition on a cell in SQL's three-valued logic: "T", "F", "U"
\* (unknown), or "E" where the comparison raises a conversion error.
Truth(cond, c) ==
  CASE cond.kind = "is_null" -> IF IsNull(c) THEN "T" ELSE "F"
    [] cond.kind = "is_not_null" -> IF IsNull(c) THEN "F" ELSE "T"
    [] cond.kind = "gt" ->
         CASE c.k = "null" -> "U"
           [] c.k = "int" -> IF c.i > cond.k THEN "T" ELSE "F"
           [] c.k = "dbl" -> IF c.d > cond.k THEN "T" ELSE "F"
           [] c.k = "str" -> IF IsIntText(c.s)
                             THEN (IF IntOfText(c.s) > cond.k THEN "T" ELSE "F")
                             ELSE "E"
           [] OTHER -> "E"
    [] OTHER -> "E"

\* (cond on col_1) AND/OR (cond on col_2) ... on one row.
RowTruth(t, cols, cond, all_and, r) ==
  LET tv == {Truth(cond, t.rows[r].vals[ColPos(t, cols[i])]) : i \in 1..Len(cols)}
  IN IF "E" \in tv THEN "E"
     ELSE IF all_and
     THEN (IF "F" \in tv THEN "F" ELSE IF "U" \in tv THEN "U" ELSE "T")
     ELSE (IF "T" \in tv THEN "T" ELSE IF "U" \in tv THEN "U" ELSE "F")

\* The engine can evaluate the WHERE clause on the canonical table.
WhereOk(t, cols, cond, all_and) ==
  /\ t.exists
  /\ cond.kind /= "syntax"
  /\ \A i \in 1..Len(cols) : HasCol(t, cols[i])
  /\ \A r \in 1..Len(t.rows) : RowTruth(t, cols, cond, all_and, r) /= "E"

\* The rows of t on which the WHERE clause is true, or is not true.
RowsWhere(t, cols, cond, all_and) ==
  SelectSeq(t.rows, LAMBDA row :
    \E r \in 1..Len(t.rows) :
      t.rows[r] = row /\ RowTruth(t, cols, cond, all_and, r) = "T")

RowsNotWhere(t, cols, cond, all_and) ==
  SelectSeq(t.rows, LAMBDA row :
    \E r \in 1..Len(t.rows) :
      t.rows[r] = row /\ RowTruth(t, cols, cond, all_and, r) /= "T")

\* The checks remove_rows and filter_rows share; "go" when they pass,
\* "nothing" when the call returns the handle untouched.
RowChecks(s, cols, cond) ==
  IF s.data.kind = "none" THEN "nothing"
  ELSE IF cols = <<>> THEN "nothing"
  ELSE IF cond.kind = "no_meta" THEN "no_meta"
  ELSE IF \E i \in 1..Len(cols) : ~InList(cols[i], s.data.cols) THEN "unknown_column"
  ELSE "go"

\* remove_rows(base_column, condition, meta, all_and).  Statement 1 is the
\* DELETE; it keeps the rowids of the rows that stay.  Whatever the try
\* block raises is raised again as a ValueError.
RemoveRows(s, cols, cond, all_and, f) ==
  LET chk == RowChecks(s, cols, cond)
  IN IF chk = "nothing" THEN Ok(s)
     ELSE IF chk /= "go" THEN Raise(s, "ValueError", chk)
     ELSE IF f = 1 \/ ~WhereOk(s.t, cols, cond, all_and)
     THEN Raise(s, "ValueError", "engine")
     ELSE LET nt == [s.t EXCEPT !.rows = RowsNotWhere(s.t, cols, cond, all_and)]
          IN Ok(St(nt, s.views, TableRel(nt)))

\* filter_rows(base_column, condition, meta, all_and).  Statement 1 is the
\* SELECT * ... WHERE, evaluated by the truth test of the relation (its
\* __len__); statement 2 is CREATE OR REPLACE TABLE ... AS SELECT * FROM
\* new_data, which runs only when the relation is truthy, i.e. has a row.
FilterRows(s, cols, cond, all_and, f) ==
  LET chk == RowChecks(s, cols, cond)
  IN IF chk = "nothing" THEN Ok(s)
     ELSE IF chk /= "go" THEN Raise(s, "ValueError", chk)
     ELSE IF f = 1 \/ ~WhereOk(s.t, cols, cond, all_and)
     THEN Raise(s, "ValueError", "engine")
     ELSE
       LET kept == RowsWhere(s.t, cols, cond, all_and)
           nt == MkTable(s.t.cols, s.t.types, [i \in 1..Len(kept) |-> kept[i].vals])
       IN IF kept = <<>> THEN Ok(s)
          ELSE IF f = 2 THEN Raise(s, "ValueError", "engine")
          ELSE Ok(St(nt, s.views, TableRel(nt)))

\* sql(sql_sentence, table_name, in_place) for the sentences
\*   [kind |-> "select", cols |-> names]   SELECT names FROM TABLE
\*   [kind |-> "delete"]                   DELETE FROM TABLE WHERE rowid = 0
\*   [kind |-> "syntax"]                   a sentence the engine cannot parse
\* Statement 1 is the sentence.  Whatever the try block raises is raised
\* again as a ValueError.
Sql(s, stmt, in_place, f) ==
  IF stmt.kind = "select" THEN
    LET p == Project(s.t, stmt.cols, StoredNames(s.t, stmt.cols))
    IN IF f = 1 \/ ~p.ok THEN Raise(s, "ValueError", "engine")
       ELSE IF in_place THEN Ok([s EXCEPT !.data = QueryRel(p.cols)])
       ELSE OkRel(s)
  ELSE IF f = 1 \/ stmt.kind = "syntax" \/ ~s.t.exists THEN Raise(s, "ValueError", "engine")
  ELSE LET nt == [s.t EXCEPT !.rows = SelectSeq(s.t.rows, LAMBDA row : row.rid /= 0)]
       IN Ok(St(nt, s.views, TableRel(nt)))

\* The cells of a batch fit the declared types of the table's columns.
BatchFits(t, batch) ==
  \A r \in 1..Len(batch) :
    /\ Len(batch[r]) = Len(t.cols)
    /\ \A i \in 1..Len(t.cols) : IsNull(batch[r][i]) \/ TypeOfKind(batch[r][i].k) = t.types[i]

\* add_data(data) for a dataframe holding the rows batch (kind "frame"), or
\* for a DuckDB relation or an unsupported object (kind "other"), which is
\* reported and left alone.  Statement 1 is the INSERT.
AddData(s, kind, batch, f) ==
  IF kind = "other" THEN Ok(s)
  ELSE IF f = 1 \/ ~s.t.exists \/ ~BatchFits(s.t, batch) THEN Raise(s, "EngineError", "insert")
  ELSE LET nt == [s.t EXCEPT
                    !.rows = @ \o [i \in 1..Len(batch) |->
                                     [rid |-> s.t.hwm + i - 1, vals |-> batch[i]]],
                    !.hwm = @ + Len(batch)]
       IN Ok(St(nt, s.views, TableRel(nt)))

(***************************************************************************)
(* Optional arguments: <<>> is None and <<v>> is the value v.              *)
(***************************************************************************)
None == <<>>
Some(v) == <<v>>
IsNone(x) == x = <<>>
Get(x) == x[1]

Min2(a, b) == IF a < b THEN a ELSE b
Max2(a, b) == IF a > b THEN a ELSE b
Abs(a) == IF a < 0 THEN 0 - a ELSE a

\* A cell read as a number (BIGINT and DOUBLE cells; DOUBLEs of the model are
\* whole numbers).
Num(c) == IF c.k = "int" THEN c.i ELSE c.d
IsNumType(type) == type \in {"BIGINT", "DOUBLE"}

\* The non-NULL cells of a column, and MIN / MAX over numbers.
NonNull(cells) == SelectSeq(cells, LAMBDA c : ~IsNull(c))
SeqMin(nums) == CHOOSE m \in {nums[i] : i \in 1..Len(nums)} : \A i \in 1..Len(nums) : m <= nums[i]
SeqMax(nums) == CHOOSE m \in {nums[i] : i \in 1..Len(nums)} : \A i \in 1..Len(nums) : m >= nums[i]
Nums(cells) == [i \in 1..Len(NonNull(cells)) |-> CastCell(NonNull(cells)[i], "DOUBLE").c.d]

\* An aggregate over "base" can be computed: the column is there and numeric.
NumColOk(t, base) == HasCol(t, base) /\ IsNumType(t.types[ColPos(t, base)])

(***************************************************************************)
(* masks.py                                                                *)
(***************************************************************************)
\* The transform with the sign left in the masked text.
MaskValueSignMasked(c, ml, mr, chs) ==
  LET ch == IF Len(chs) = 0 THEN " " ELSE chs[1]
      body == IF c.k = "int" THEN IntText(c.i) ELSE c.s
      n == Len(body)
      al == Max2(0, Min2(ml, n))
      ar == Max2(0, Min2(mr, n - al))
  IN <<>> \o [i \in 1..n |-> IF i <= al \/ i > n - ar THEN ch ELSE body[i]]

\* _mask_value_for_duckdb(value, mask_left_count, mask_right_count,
\* mask_char_str) for an int or str cell; mask_char_str is a text.
MaskValue(c, ml, mr, chs) ==
  LET ch == IF Len(chs) = 0 THEN " " ELSE chs[1]
      orig == IF c.k = "int" THEN IntText(c.i) ELSE c.s
      neg == IF c.k = "int" THEN c.i < 0
             ELSE Len(orig) > 0 /\ orig[1] = "-" /\ AllDigits(Tail(orig))
      body == IF neg THEN Tail(orig) ELSE orig
      n == Len(body)
      al == Max2(0, Min2(ml, n))
      ar == Max2(0, Min2(mr, n - al))
      parts == IF al + ar >= n THEN [i \in 1..n |-> ch]
               ELSE [i \in 1..n |-> IF i <= al \/ i > n - ar THEN ch ELSE body[i]]
  IN (IF neg THEN <<"-">> ELSE <<>>) \o parts

\* ALTER TABLE ... ADD COLUMN "name" type: the new column is NULL in every row.
AddColStmt(t, name, type) ==
  IF ~t.exists \/ HasCol(t, name) THEN [ok |-> FALSE, t |-> t]
  ELSE [ok |-> TRUE,
        t |-> [t EXCEPT !.cols = Append(@, name),
                        !.types = Append(@, type),
                        !.rows = [r \in 1..Len(t.rows) |->
                                    [t.rows[r] EXCEPT !.vals = Append(@, Null)]]]]

\* UPDATE ... SET "name" = cells[r] in every row r (cells in scan order).
SetColumn(t, name, cells) ==
  [t EXCEPT !.rows = [r \in 1..Len(t.rows) |->
                        [t.rows[r] EXCEPT !.vals[ColPos(t, name)] = cells[r]]]]

\* add_masked_column(base_column, new_column_name, mask_left, mask_right,
\* mask_char) with mask_char a text.  Statements: 1 ALTER ... ADD COLUMN,
\* 2 UPDATE ... SET new = udf(base, ...).  The UDF is not called on NULL.
AddMaskedColumn(s, base, name, ml, mr, chs, f) ==
  IF name = "" THEN Raise(s, "ValueError", "bad_name")
  ELSE IF base = "" THEN Raise(s, "ValueError", "bad_name")
  ELSE IF Len(chs) = 0 THEN Raise(s, "ValueError", "bad_mask_char")
  ELSE IF ml < 0 \/ mr < 0 THEN Raise(s, "ValueError", "bad_mask_count")
  ELSE IF s.data.kind = "none" THEN Raise(s, "ValueError", "no_data")
  ELSE IF ~InList(Lower(base), LowerAll(s.data.cols)) THEN Raise(s, "ValueError", "unknown_column")
  ELSE IF ~s.t.exists \/ ~InList(base, s.t.cols) THEN Raise(s, "ValueError", "no_type")
  ELSE IF s.t.types[ColPos(s.t, base)] \notin {"BIGINT", "BIGINT[]", "VARCHAR"}
  THEN Raise(s, "ValueError", "bad_type")
  ELSE
    LET a == AddColStmt(s.t, name, "VARCHAR")
        cells == Column(s.t, base)
        masked == [r \in 1..Len(cells) |->
                     IF IsNull(cells[r]) THEN Null
                     ELSE StrC(MaskValue(cells[r], ml, mr, <<chs[1]>>))]
        nt == SetColumn(a.t, name, masked)
    IN IF f = 1 \/ ~a.ok THEN Raise(s, "EngineError", "alter")
       ELSE IF f = 2 \/ s.t.types[ColPos(s.t, base)] = "BIGINT[]"
       THEN Raise([s EXCEPT !.t = a.t], "EngineError", "update")
       ELSE Ok(St(nt, s.views, TableRel(nt)))

\* The characters of a mail address that the class [\w._-] matches.
WordChars ==
  {"a", "b", "c", "d", "e", "f", "g", "h", "i", "j", "k", "l", "m", "n", "o", "p", "q", "r",
   "s", "t", "u", "v", "w", "x", "y", "z", "_"} \cup {DigitChars[i] : i \in 1..10}

IsMailChar(ch) == ch \in WordChars \cup {".", "-"}

\* The end of the longest run of such characters that starts at p (p - 1
\* where there is none).
RunEnd(s, p) ==
  CHOOSE q \in (p - 1)..Len(s) :
    /\ \A i \in p..q : IsMailChar(s[i])
    /\ q = Len(s) \/ ~IsMailChar(s[q + 1])

\* regexp_replace(s, '@([\w._-]+)', '@' || domain): the first match only.
ReplaceDomain(s, domain) ==
  IF \E p \in 1..(Len(s) - 1) : s[p] = "@" /\ IsMailChar(s[p + 1])
  THEN LET p == CHOOSE p \in 1..(Len(s) - 1) :
                  /\ s[p] = "@" /\ IsMailChar(s[p + 1])
                  /\ \A j \in 1..(p - 1) : ~(s[j] = "@" /\ IsMailChar(s[j + 1]))
       IN SubSeq(s, 1, p) \o domain \o SubSeq(s, RunEnd(s, p + 1) + 1, Len(s))
  ELSE s

\* regexp_replace(s, '^([\w._-]+)@', user || '@').
ReplaceUser(s, user) ==
  LET q == RunEnd(s, 1)
  IN IF q >= 1 /\ q < Len(s) /\ s[q + 1] = "@"
     THEN user \o SubSeq(s, q + 1, Len(s))
     ELSE s

\* regexp_replace(s, '^([\w._-]+)@([\w._-]+)', user || '@' || domain).
ReplaceBoth(s, user, domain) ==
  LET q == RunEnd(s, 1)
  IN IF q >= 1 /\ q + 1 < Len(s) /\ s[q + 1] = "@" /\ IsMailChar(s[q + 2])
     THEN user \o <<"@">> \o domain \o SubSeq(s, RunEnd(s, q + 2) + 1, Len(s))
     ELSE s

\* regexp_matches(s, '.*' || escaped choice || '$').
EndsWith(s, choice) ==
  Len(s) >= Len(choice) /\ SubSeq(s, Len(s) - Len(choice) + 1, Len(s)) = choice

\* The arguments mask_user, mask_domain and domain_choices: a bool, a text or
\* a list of texts.
Flag(b) == [k |-> "bool", b |-> b]
Text(s) == [k |-> "str", s |-> s]
Texts(l) == [k |-> "list", l |-> l]

\* Python's truth value of such an argument.
Truthy(x) ==
  \/ x.k = "bool" /\ x.b
  \/ x.k = "str" /\ x.s /= <<>>
  \/ x.k = "list" /\ x.l /= <<>>

\* The domains random.choice draws from where none is given.
DefaultDomains ==
  LET example == <<"e", "x", "a", "m", "p", "l", "e", ".">>
  IN <<example \o <<"c", "o", "m">>, example \o <<"o", "r", "g">>, example \o <<"n", "e", "t">>,
       example \o <<"e", "d", "u">>, example \o <<"c", "o">>>>

\* user_mask_str and domain_mask_str: <<>> is None; draw is the index
\* random.choice picks.
UserMask(mask_user) ==
  IF ~Truthy(mask_user) THEN None
  ELSE IF mask_user.k = "bool" THEN Some(<<"?", "?", "?", "?", "?", "?", "?", "?">>)
  ELSE Some(mask_user.s)

DomainMask(mask_domain, domain_choices, draw) ==
  IF ~Truthy(mask_domain) THEN None
  ELSE IF mask_domain.k = "str" THEN Some(mask_domain.s)
  ELSE IF ~Truthy(domain_choices) THEN Some(DefaultDomains[draw])
  ELSE IF domain_choices.k = "str" THEN Some(domain_choices.s)
  ELSE IF domain_choices.k = "list" THEN None
  ELSE Some(DefaultDomains[draw])

\* The value the general UPDATE writes for the base cell c, one of the masks
\* being given.
GeneralMask(c, um, dm) ==
  IF IsNull(c) THEN Null
  ELSE IF um /= None /\ dm /= None THEN StrC(ReplaceBoth(c.s, Get(um), Get(dm)))
  ELSE IF um /= None THEN StrC(ReplaceUser(c.s, Get(um)))
  ELSE StrC(ReplaceDomain(c.s, Get(dm)))

\* The rows (positions) the CTE EligibleRows selects: the new column is NULL
\* and the address ends in none of the choices.
Eligible(t, base, new, choices) ==
  {r \in 1..RowCount(t) :
     /\ IsNull(Column(t, new)[r])
     /\ ~IsNull(Column(t, base)[r])
     /\ \A i \in 1..Len(choices) : ~EndsWith(Column(t, base)[r].s, choices[i])}

\* ROW_NUMBER() OVER (ORDER BY RANDOM()) of the eligible row r, the random
\* order being that of the positions or its reverse (desc).
RowNumber(elig, r, desc) ==
  Cardinality({x \in elig : IF desc THEN x >= r ELSE x <= r})

\* The loop over domain_choices from the i-th choice on; statement f0 + i is
\* its UPDATE, which joins the table with the selected rows on the column id.
RECURSIVE MailLoop(_, _, _, _, _, _, _, _)
MailLoop(t, base, new, choices, desc, i, f, f0) ==
  IF i > Len(choices) THEN [ok |-> TRUE, t |-> t, done |-> i - 1]
  ELSE IF f = f0 + i \/ ~HasCol(t, "id") \/ ~HasCol(t, new) \/ ~HasCol(t, base)
  THEN [ok |-> FALSE, t |-> t, done |-> i - 1]
  ELSE
    LET n == Len(choices)
        elig == Eligible(t, base, new, choices)
        sel == IF i = n THEN elig
               ELSE {r \in elig : RowNumber(elig, r, desc) % n = i - 1}
        ids == {Column(t, "id")[r] : r \in sel} \ {Null}
        cells == [r \in 1..RowCount(t) |->
                    IF Column(t, "id")[r] \in ids
                    THEN (IF IsNull(Column(t, base)[r]) THEN Null
                          ELSE StrC(ReplaceDomain(Column(t, base)[r].s, choices[i])))
                    ELSE Column(t, new)[r]]
    IN MailLoop(SetColumn(t, new, cells), base, new, choices, desc, i + 1, f, f0)

\* add_masked_mail_column(base_column, new_column_name, mask_user,
\* mask_domain, domain_choices).  Statements: 1 the type query, 2 ALTER,
\* 3 the UPDATE that sets NULL, 4 the general UPDATE, 5.. one UPDATE per
\* choice of a list.
AddMaskedMailColumn(s, base, name, mask_user, mask_domain, domain_choices, draw, desc, f) ==
  LET new == IF IsNone(name) THEN "masked_" \o base ELSE Get(name)
      listed == InList(Lower(new), LowerAll(s.data.cols))
      a == AddColStmt(s.t, new, "VARCHAR")
      t1 == IF listed THEN s.t ELSE a.t
      d1 == IF listed THEN s.data ELSE TableRel(t1)
      um == UserMask(mask_user)
      dm == DomainMask(mask_domain, domain_choices, draw)
      general == um /= None \/ dm /= None
      t2 == IF general
            THEN SetColumn(t1, new, [r \in 1..RowCount(t1) |->
                                       IF IsNull(Column(t1, new)[r])
                                       THEN GeneralMask(Column(t1, base)[r], um, dm)
                                       ELSE Column(t1, new)[r]])
            ELSE t1
      d2 == IF general THEN TableRel(t2) ELSE d1
      choices == IF domain_choices.k = "list" THEN domain_choices.l ELSE <<>>
      u == MailLoop(t2, base, new, choices, desc, 1, f, 4)
  IN IF name /= None /\ new = "" THEN Raise(s, "ValueError", "bad_name")
     ELSE IF base = "" THEN Raise(s, "ValueError", "bad_name")
     ELSE IF s.data.kind = "none" THEN Raise(s, "ValueError", "no_data")
     ELSE IF ~InList(Lower(base), LowerAll(s.data.cols)) THEN Raise(s, "ValueError", "unknown_column")
     ELSE IF f = 1 THEN Raise(s, "EngineError", "type_query")
     ELSE IF ~s.t.exists \/ ~InList(base, s.t.cols) THEN Raise(s, "ValueError", "no_type")
     ELSE IF s.t.types[ColPos(s.t, base)] /= "VARCHAR" THEN Raise(s, "ValueError", "bad_type")
     ELSE IF ~listed /\ (f = 2 \/ ~a.ok) THEN Raise(s, "EngineError", "alter")
     ELSE IF ~listed /\ f = 3 THEN Raise([s EXCEPT !.t = t1], "EngineError", "update")
     ELSE IF general /\ (f = 4 \/ ~HasCol(t1, new)) THEN Raise(St(t1, s.views, d1), "EngineError", "update")
     ELSE IF ~u.ok
     THEN Raise(St(u.t, s.views, IF u.done = 0 THEN d2 ELSE TableRel(u.t)), "EngineError", "update")
     ELSE Ok(St(u.t, s.views, TableRel(u.t)))


(***************************************************************************)
(* noise.py                                                                *)
(***************************************************************************)
\* add_gaussian_noise_column(base_column, new_column_name).  draws are the
\* values numpy's normal() yields, as many of them used as COUNT(base), the
\* number of non-NULL cells.  With no such cell the mean and the deviation
\* are None; lenient tells whether numpy then yields the empty vector or
\* raises.  Statement 1 is the statistics query, 2..6 are those of
\* add_column.
AddGaussianNoiseColumn(s, vid, base, name, draws, lenient, f) ==
  IF s.data.kind = "none" THEN Raise(s, "ValueError", "no_data")
  ELSE IF ~InList(Lower(base), LowerAll(s.data.cols)) THEN Raise(s, "ValueError", "unknown_column")
  ELSE IF f = 1 \/ ~NumColOk(s.t, base) THEN Raise(s, "EngineError", "stats")
  ELSE
    LET count == Len(NonNull(Column(s.t, base)))
    IN IF count = 0 /\ ~lenient THEN Raise(s, "TypeError", "stats_null")
       ELSE AddColumn(s, vid, SubSeq(draws, 1, count), "DOUBLE", name, f - 1)

\* The checks of the sampling arguments shared by the impulse and the
\* salt-and-pepper noise.
SampleChecks(sample_pct, n_samples) ==
  IF IsNone(sample_pct) /\ IsNone(n_samples) THEN "no_sample"
  ELSE IF ~IsNone(sample_pct) /\ ~(0 < Get(sample_pct) /\ Get(sample_pct) < 100) THEN "bad_sample_pct"
  ELSE IF ~IsNone(n_samples) /\ Get(n_samples) <= 0 THEN "bad_n_samples"
  ELSE "none"

\* A variant of the checks that accepts a call with neither impulse_mag nor
\* impulse_pct.
ImpulseChecksOptional(impulse_mag, impulse_pct) ==
  IF ~IsNone(impulse_mag) /\ Get(impulse_mag) < 0 THEN "bad_impulse_mag"
  ELSE IF ~IsNone(impulse_pct) /\ ~(0 < Get(impulse_pct) /\ Get(impulse_pct) <= 100) THEN "bad_impulse_pct"
  ELSE "none"

\* The checks of the impulse arguments.
ImpulseChecks(impulse_mag, impulse_pct) ==
  IF IsNone(impulse_mag) /\ IsNone(impulse_pct) THEN "no_impulse"
  ELSE IF ~IsNone(impulse_mag) /\ Get(impulse_mag) < 0 THEN "bad_impulse_mag"
  ELSE IF ~IsNone(impulse_pct) /\ ~(0 < Get(impulse_pct) /\ Get(impulse_pct) <= 100) THEN "bad_impulse_pct"
  ELSE "none"

\* A variant of num_samples_to_alter that rounds the share of rows up.
NumSamplesCeil(sample_pct, n_samples, total) ==
  IF ~IsNone(n_samples) THEN Get(n_samples)
  ELSE (Get(sample_pct) * total + 99) \div 100

\* num_samples_to_alter: n_samples, or max(1, int(sample_pct * total / 100)).
NumSamples(sample_pct, n_samples, total) ==
  IF ~IsNone(n_samples) THEN Get(n_samples)
  ELSE Max2(1, (Get(sample_pct) * total) \div 100)

\* np.random.choice(total, size = k, replace = False): the first k of the
\* numbers below total, in the random order `order` of 0, 1, 2, ...
Choice(order, total, k) ==
  SubSeq(SelectSeq(order, LAMBDA x : x < total), 1, k)

\* A result together with the rowids the sampler drew for alteration.
Picked(r, picks) == [s |-> r.s, out |-> r.out, err |-> r.err, ret |-> r.ret, picks |-> picks]

\* The cell a single-row UPDATE writes over c: SET name = name + d (NULL
\* stays NULL) or SET name = d.
NewCell(c, upd) ==
  IF upd.kind = "add" THEN (IF IsNull(c) THEN Null ELSE DblC(c.d + upd.d))
  ELSE DblC(upd.d)

\* The loop of single-row UPDATEs ... WHERE rowid = picks[i], from i on.
\* Statement f0 + i is the i-th UPDATE.
RECURSIVE UpdateLoop(_, _, _, _, _, _, _)
UpdateLoop(t, name, picks, upd, i, f, f0) ==
  IF i > Len(picks) THEN [ok |-> TRUE, t |-> t]
  ELSE IF f = f0 + i THEN [ok |-> FALSE, t |-> t]
  ELSE UpdateLoop(
         [t EXCEPT !.rows = [r \in 1..Len(t.rows) |->
                               IF t.rows[r].rid = picks[i]
                               THEN [t.rows[r] EXCEPT !.vals[ColPos(t, name)] = NewCell(@, upd)]
                               ELSE t.rows[r]]],
         name, picks, upd, i + 1, f, f0)

\* ALTER ... ADD COLUMN "name" DOUBLE; UPDATE ... SET "name" = "base".
\* stage 0: the ALTER raised; 1: the UPDATE raised; 2: both done.
CopyAsDouble(t, base, name, f, f0) ==
  LET a == AddColStmt(t, name, "DOUBLE")
      cells == Column(t, base)
      cast == [r \in 1..Len(cells) |-> CastCell(cells[r], "DOUBLE")]
  IN IF f = f0 + 1 \/ ~a.ok THEN [stage |-> 0, t |-> t]
     ELSE IF f = f0 + 2 \/ ~HasCol(t, base) \/ \E r \in 1..Len(cells) : ~cast[r].ok
     THEN [stage |-> 1, t |-> a.t]
     ELSE [stage |-> 2, t |-> SetColumn(a.t, name, [r \in 1..Len(cells) |-> cast[r].c])]

\* add_impulse_noise_column(base_column, new_column_name, sample_pct,
\* n_samples, impulse_mag, impulse_pct).  order is the random order the
\* sampler draws rowids in and sign the sign of the impulses, which are drawn
\* at the full magnitude.  Statements: 1 MAX(ABS(base)) (only without
\* impulse_mag), 2 COUNT(*), 3 ALTER, 4 UPDATE (copy), 5.. the single-row
\* UPDATEs.
AddImpulseNoiseColumn(s, base, name, sample_pct, n_samples, impulse_mag, impulse_pct, order, sign, f) ==
  IF s.data.kind = "none" THEN Raise(s, "ValueError", "no_data")
  ELSE IF ~InList(Lower(base), LowerAll(s.data.cols)) THEN Raise(s, "ValueError", "unknown_column")
  ELSE IF ~IsIdentifier(name) THEN Raise(s, "ValueError", "not_identifier")
  ELSE IF SampleChecks(sample_pct, n_samples) /= "none"
  THEN Raise(s, "ValueError", SampleChecks(sample_pct, n_samples))
  ELSE IF ImpulseChecks(impulse_mag, impulse_pct) /= "none"
  THEN Raise(s, "ValueError", ImpulseChecks(impulse_mag, impulse_pct))
  ELSE IF IsNone(impulse_mag) /\ ~IsNone(impulse_pct) /\ (f = 1 \/ ~NumColOk(s.t, base))
  THEN Raise(s, "EngineError", "max_abs")
  ELSE IF IsNone(impulse_mag) /\ ~IsNone(impulse_pct) /\ NonNull(Column(s.t, base)) = <<>>
  THEN Raise(s, "ValueError", "max_null")
  ELSE IF f = 2 \/ ~s.t.exists THEN Raise(s, "EngineError", "count")
  ELSE IF RowCount(s.t) = 0 THEN Ok(s)
  ELSE
    LET total == RowCount(s.t)
        k == NumSamples(sample_pct, n_samples, total)
        mag == IF ~IsNone(impulse_mag) THEN Get(impulse_mag)
               ELSE IF ~IsNone(impulse_pct)
               THEN (SeqMax([i \in 1..Len(Nums(Column(s.t, base))) |->
                               Abs(Nums(Column(s.t, base))[i])]) * Get(impulse_pct)) \div 100
               ELSE 0
        c == CopyAsDouble(s.t, base, name, f, 2)
        u == UpdateLoop(c.t, name, Choice(order, total, k),
                        [kind |-> "add", d |-> sign * mag], 1, f, 4)
    IN IF c.stage = 0 THEN Raise(s, "EngineError", "alter")
       ELSE IF c.stage = 1 THEN Raise([s EXCEPT !.t = c.t], "EngineError", "update")
       ELSE IF k > total THEN Raise(St(c.t, s.views, TableRel(c.t)), "ValueError", "sample_too_large")
       ELSE IF ~u.ok
       THEN Picked(Raise(St(u.t, s.views, TableRel(c.t)), "EngineError", "update"), Choice(order, total, k))
       ELSE Picked(Ok(St(u.t, s.views, TableRel(u.t))), Choice(order, total, k))

\* add_salt_pepper_noise_column(base_column, new_column_name, sample_pct,
\* n_samples).  order is the random order the sampler draws rowids in; salt
\* is TRUE where the draw between minimum and maximum gives the maximum.
\* Statements: 1 COUNT(*), 2 MIN/MAX, 3 ALTER, 4 UPDATE (copy), 5.. the
\* single-row UPDATEs.
AddSaltPepperNoiseColumn(s, base, name, sample_pct, n_samples, order, salt, f) ==
  IF s.data.kind = "none" THEN Raise(s, "ValueError", "no_data")
  ELSE IF ~InList(Lower(base), LowerAll(s.data.cols)) THEN Raise(s, "ValueError", "unknown_column")
  ELSE IF ~IsIdentifier(name) THEN Raise(s, "ValueError", "not_identifier")
  ELSE IF SampleChecks(sample_pct, n_samples) /= "none"
  THEN Raise(s, "ValueError", SampleChecks(sample_pct, n_samples))
  ELSE IF f = 1 \/ ~s.t.exists THEN Raise(s, "EngineError", "count")
  ELSE IF RowCount(s.t) = 0 THEN Ok(s)
  ELSE IF ~IsNone(n_samples) /\ Get(n_samples) > RowCount(s.t)
  THEN Raise(s, "ValueError", "sample_too_large")
  ELSE IF f = 2 \/ ~HasCol(s.t, base) THEN Raise(s, "EngineError", "min_max")
  ELSE IF NonNull(Column(s.t, base)) = <<>> THEN Raise(s, "ValueError", "min_max_null")
  ELSE IF s.t.types[ColPos(s.t, base)] \notin {"BIGINT", "DOUBLE", "VARCHAR"}
  THEN Raise(s, "TypeError", "not_numeric")
  ELSE IF \E r \in 1..RowCount(s.t) : ~CastCell(Column(s.t, base)[r], "DOUBLE").ok
  THEN Raise(s, "ValueError", "not_numeric")
  ELSE
    LET total == RowCount(s.t)
        k == NumSamples(sample_pct, n_samples, total)
        nums == Nums(Column(s.t, base))
        noise == IF salt THEN SeqMax(nums) ELSE SeqMin(nums)
        c == CopyAsDouble(s.t, base, name, f, 2)
        u == UpdateLoop(c.t, name, Choice(order, total, k),
                        [kind |-> "set", d |-> noise], 1, f, 4)
    IN IF c.stage = 0 THEN Raise(s, "EngineError", "alter")
       ELSE IF c.stage = 1 THEN Raise([s EXCEPT !.t = c.t], "EngineError", "update")
       ELSE IF ~u.ok
       THEN Picked(Raise(St(u.t, s.views, TableRel(c.t)), "EngineError", "update"), Choice(order, total, k))
       ELSE Picked(Ok(St(u.t, s.views, TableRel(u.t))), Choice(order, total, k))

(***************************************************************************)
(* ranges.py                                                               *)
(***************************************************************************)
\* The checks add_integer_range_column and add_float_range_column make before
\* touching the engine.
RangeChecks(s, base, name, num_ranges, range_size) ==
  IF s.data.kind = "none" THEN "no_data"
  ELSE IF ~InList(Lower(base), LowerAll(s.data.cols)) THEN "unknown_column"
  ELSE IF ~IsIdentifier(name) THEN "not_identifier"
  ELSE IF IsNone(num_ranges) = IsNone(range_size) THEN "not_exactly_one"
  ELSE IF ~IsNone(num_ranges) /\ Get(num_ranges) <= 0 THEN "bad_num_ranges"
  ELSE IF ~IsNone(range_size) /\ Get(range_size) <= 0 THEN "bad_range_size"
  ELSE "none"

\* What reading the MIN / MAX row and the fetched values of a base column
\* that is not numeric does: int() or float() of a text that is no number
\* raises ValueError, np.isnan() of a text and int() or float() of a list
\* raise TypeError.
NotNumeric(s, t, base) ==
  IF t.types[ColPos(t, base)] = "VARCHAR"
        /\ \E r \in 1..RowCount(t) : ~CastCell(Column(t, base)[r], "DOUBLE").ok
  THEN Raise(s, "ValueError", "not_numeric")
  ELSE Raise(s, "TypeError", "not_numeric")

\* A variant of the plan whose range size is rounded down.
IntRangePlanFloor(span, num_ranges, range_size) ==
  LET p == IF span <= 0 THEN [size |-> 1, num |-> 1]
           ELSE IF ~IsNone(num_ranges)
           THEN [size |-> span \div Get(num_ranges), num |-> Get(num_ranges)]
           ELSE [size |-> Get(range_size), num |-> (span + Get(range_size) - 1) \div Get(range_size)]
  IN IF p.size = 0 THEN [size |-> 1, num |-> span] ELSE p

\* calculated_range_size and calculated_num_ranges of add_integer_range_column.
IntRangePlan(span, num_ranges, range_size) ==
  LET p == IF span <= 0 THEN [size |-> 1, num |-> 1]
           ELSE IF ~IsNone(num_ranges)
           THEN [size |-> (span + Get(num_ranges) - 1) \div Get(num_ranges), num |-> Get(num_ranges)]
           ELSE [size |-> Get(range_size), num |-> (span + Get(range_size) - 1) \div Get(range_size)]
  IN IF p.size = 0 THEN [size |-> 1, num |-> span] ELSE p

\* The range of one value: its start, or the list [start, end].
IntRangeOf(val, emin, max, plan, only_start) ==
  LET raw == (val - emin) \div plan.size
      idx == Max2(0, Min2(raw, plan.num - 1))
      start == emin + idx * plan.size
      end0 == start + plan.size - 1
      end == IF idx = plan.num - 1 /\ end0 > max THEN max ELSE end0
  IN IF only_start THEN IntC(start) ELSE ListC(start, end)

\* add_integer_range_column(base_column, new_column_name, num_ranges,
\* range_size, only_start, min_range_start).  Statements: 1 MIN/MAX, 2 the
\* fetch of the base column, 3..7 those of add_column.
AddIntegerRangeColumn(s, vid, base, name, num_ranges, range_size, only_start, min_start, f) ==
  IF RangeChecks(s, base, name, num_ranges, range_size) /= "none"
  THEN Raise(s, "ValueError", RangeChecks(s, base, name, num_ranges, range_size))
  ELSE IF f = 1 \/ ~HasCol(s.t, base) THEN Raise(s, "EngineError", "min_max")
  ELSE IF NonNull(Column(s.t, base)) = <<>> THEN Raise(s, "ValueError", "min_max_null")
  ELSE IF ~IsNumType(s.t.types[ColPos(s.t, base)]) THEN NotNumeric(s, s.t, base)
  ELSE IF f = 2 THEN Raise(s, "EngineError", "fetch")
  ELSE
    LET cells == Column(s.t, base)
        nums == Nums(cells)
        emin == IF IsNone(min_start) THEN SeqMin(nums) ELSE Get(min_start)
        max == SeqMax(nums)
        plan == IntRangePlan(max - emin + 1, num_ranges, range_size)
        vec == [r \in 1..Len(cells) |->
                  IF IsNull(cells[r]) THEN Null
                  ELSE IntRangeOf(Num(cells[r]), emin, max, plan, only_start)]
    IN AddColumn(s, vid, vec, IF only_start THEN "BIGINT" ELSE "BIGINT[]", name, f - 2)

\* round(p / q, 0) for q > 0: to the nearest whole number, ties to the even.
RoundHalfEven(p, q) ==
  LET fl == p \div q
      rem == p - fl * q
  IN IF 2 * rem < q THEN fl
     ELSE IF 2 * rem > q THEN fl + 1
     ELSE IF fl % 2 = 0 THEN fl ELSE fl + 1

\* calculated_range_size, as the fraction sn / sd, and calculated_num_ranges
\* of add_float_range_column.
FloatRangePlan(span, num_ranges, range_size) ==
  IF span <= 0 THEN [sn |-> 1, sd |-> 1, num |-> 1]
  ELSE IF ~IsNone(num_ranges) THEN [sn |-> span, sd |-> Get(num_ranges), num |-> Get(num_ranges)]
  ELSE [sn |-> Get(range_size), sd |-> 1,
        num |-> Max2(1, (span + Get(range_size) - 1) \div Get(range_size))]

\* The range of one value with decimals = 0, where epsilon is 1.
FloatRangeOf(val, emin, max, plan, only_start) ==
  LET raw == ((val - emin) * plan.sd) \div plan.sn
      idx == Max2(0, Min2(raw, plan.num - 1))
      start == RoundHalfEven(emin * plan.sd + idx * plan.sn, plan.sd)
      next == RoundHalfEven(emin * plan.sd + (idx + 1) * plan.sn, plan.sd)
      last == idx = plan.num - 1
  IN IF only_start THEN DblC(IF last THEN Min2(start, max) ELSE start)
     ELSE IF last THEN ListC(Min2(start, max), max)
     ELSE ListC(start, next - 1)

\* add_float_range_column(base_column, new_column_name, num_ranges,
\* range_size, only_start, min_range_start, decimals = 0) over whole numbers.
\* Statements: 1 MIN/MAX, 2 the fetch of the base column, 3..7 those of
\* add_column.
AddFloatRangeColumn(s, vid, base, name, num_ranges, range_size, only_start, min_start, f) ==
  IF RangeChecks(s, base, name, num_ranges, range_size) /= "none"
  THEN Raise(s, "ValueError", RangeChecks(s, base, name, num_ranges, range_size))
  ELSE IF f = 1 \/ ~HasCol(s.t, base) THEN Raise(s, "EngineError", "min_max")
  ELSE IF NonNull(Column(s.t, base)) = <<>> THEN Raise(s, "ValueError", "min_max_null")
  ELSE IF ~IsNumType(s.t.types[ColPos(s.t, base)]) THEN NotNumeric(s, s.t, base)
  ELSE IF f = 2 THEN Raise(s, "EngineError", "fetch")
  ELSE
    LET cells == Column(s.t, base)
        nums == Nums(cells)
        emin == IF IsNone(min_start) THEN SeqMin(nums) ELSE Get(min_start)
        max == SeqMax(nums)
        plan == FloatRangePlan(max - emin, num_ranges, range_size)
        vec == [r \in 1..Len(cells) |->
                  IF IsNull(cells[r]) THEN Null
                  ELSE FloatRangeOf(Num(cells[r]), emin, max, plan, only_start)]
    IN AddColumn(s, vid, vec, IF only_start THEN "DOUBLE" ELSE "DOUBLE[]", name, f - 2)

\* add_age_range_column(base_column, new_column_name, min_age, only_adult,
\* num_ranges, range_size, only_start).  Statements 1..7 are those of
\* add_integer_range_column with min_age as min_range_start; with only_adult
\* follow 8 SELECT * ... WHERE base >= min_age, 9 DROP, 10 CREATE.
AddAgeRangeColumn(s, vid, base, name, min_age, only_adult, num_ranges, range_size, only_start, f) ==
  IF s.data.kind = "none" THEN Raise(s, "ValueError", "no_data")
  ELSE IF ~InList(Lower(base), LowerAll(s.data.cols)) THEN Raise(s, "ValueError", "unknown_column")
  ELSE IF ~IsIdentifier(name) THEN Raise(s, "ValueError", "not_identifier")
  ELSE IF only_adult /\ IsNone(min_age) THEN Raise(s, "ValueError", "no_min_age")
  ELSE
    LET r == AddIntegerRangeColumn(s, vid, base, name, num_ranges, range_size, only_start, min_age, f)
        t == r.s.t
        adult == SelectSeq(Vals(t), LAMBDA v : ~IsNull(v[ColPos(t, base)])
                                               /\ Num(v[ColPos(t, base)]) >= Get(min_age))
    IN IF r.out /= "ok" \/ ~only_adult THEN r
       ELSE Swap(r.s, [ok |-> HasCol(t, base), cols |-> t.cols, types |-> t.types, vals |-> adult], f, 7)

(***************************************************************************)
(* synthetic.py.  A date is a day number and its text under date_format is *)
(* the decimal text of that number.                                        *)
(***************************************************************************)
\* datetime.strptime(text, date_format): ok is FALSE where it raises.
ParseDate(text) ==
  IF AllDigits(text) THEN [ok |-> TRUE, day |-> NatOfDigits(text)] ELSE [ok |-> FALSE, day |-> 0]

\* The date add_syn_date_column reads from a cell of the base column: a
\* number is a timestamp, a text is parsed; ok is FALSE for a missing value
\* and for one that is not a date.
DateOfCell(c) ==
  IF c.k = "int" /\ c.i >= 0 THEN [ok |-> TRUE, day |-> c.i]
  ELSE IF c.k = "dbl" /\ c.d >= 0 THEN [ok |-> TRUE, day |-> c.d]
  ELSE IF c.k = "str" THEN ParseDate(c.s)
  ELSE [ok |-> FALSE, day |-> 0]

\* The text generated for one row: None unless lo is strictly before hi,
\* else the text of the day Faker draws between them (late tells which end).
SynDate(lo, hi, late) ==
  IF ~lo.ok \/ ~hi.ok THEN Null
  ELSE IF lo.day >= hi.day THEN Null
  ELSE StrC(NatDigits(IF late THEN hi.day ELSE lo.day))

\* add_syn_date_column(base_column, new_column_name, start_date, end_date).
\* Statements: 1 the fetch of the base column (where it bounds the range),
\* 2 COUNT(*), 3..7 those of add_column.
AddSynDateColumn(s, vid, base, name, start_date, end_date, late, f) ==
  LET new == IF IsNone(name) THEN (IF IsNone(base) THEN "" ELSE "syn_" \o Get(base)) ELSE Get(name)
      dynamic == ~IsNone(base) /\ (IsNone(start_date) /= IsNone(end_date))
      lo(c) == IF IsNone(start_date) THEN DateOfCell(c) ELSE ParseDate(Get(start_date))
      hi(c) == IF IsNone(end_date) THEN DateOfCell(c) ELSE ParseDate(Get(end_date))
      cells == IF dynamic THEN Column(s.t, Get(base)) ELSE [r \in 1..RowCount(s.t) |-> Null]
      vec == [r \in 1..RowCount(s.t) |->
                IF IsNone(start_date) \/ IsNone(end_date)
                THEN (IF dynamic THEN SynDate(lo(cells[r]), hi(cells[r]), late) ELSE Null)
                ELSE SynDate(lo(Null), hi(Null), late)]
  IN IF s.data.kind = "none" THEN Raise(s, "ValueError", "no_data")
     ELSE IF IsNone(name) /\ IsNone(base) THEN Raise(s, "ValueError", "no_name")
     ELSE IF ~IsIdentifier(new) THEN Raise(s, "ValueError", "not_identifier")
     ELSE IF ~IsNone(base) /\ ~InList(Lower(Get(base)), LowerAll(s.data.cols))
     THEN Raise(s, "ValueError", "unknown_column")
     ELSE IF IsNone(start_date) /\ IsNone(end_date) THEN Raise(s, "ValueError", "no_dates")
     ELSE IF \/ ~IsNone(start_date) /\ ~ParseDate(Get(start_date)).ok
             \/ ~IsNone(end_date) /\ ~ParseDate(Get(end_date)).ok
     THEN Raise(s, "ValueError", "bad_date")
     ELSE IF dynamic /\ (f = 1 \/ ~HasCol(s.t, Get(base))) THEN Raise(s, "EngineError", "fetch")
     ELSE IF f = 2 \/ ~s.t.exists THEN Raise(s, "EngineError", "count")
     ELSE IF RowCount(s.t) = 0 THEN Ok(s)
     ELSE AddColumn(s, vid, vec, "VARCHAR", new, f - 2)

\* The table city_equivalences of the connection: rows of an original value
\* (key) and the city generated for it.
NoEquiv == [exists |-> FALSE, rows |-> <<>>]

\* The i-th value fake.city() returns after Faker.seed(42), i from 0.
City(i) == StrC(<<"c", DigitChars[i + 1]>>)

\* SELECT DISTINCT over the cells of a column, in order of first appearance.
RECURSIVE Distinct(_)
Distinct(cells) ==
  IF cells = <<>> THEN <<>>
  ELSE LET d == Distinct(SubSeq(cells, 1, Len(cells) - 1))
       IN IF InList(cells[Len(cells)], d) THEN d ELSE Append(d, cells[Len(cells)])

Reverse(q) == [i \in 1..Len(q) |-> q[Len(q) + 1 - i]]

\* What add_syn_city_column raises from its except clauses: the handler calls
\* printf, a name the module does not define, so a NameError replaces the
\* error e of the statement that failed.
CityHandler(s, eq, e) ==
  [s |-> s, out |-> "NameError", err |-> "printf", ret |-> "raised",
   first |-> [out |-> "EngineError", err |-> e], equiv |-> eq]

\* add_syn_city_column(base_column, new_column_name, max_uniques) on a
\* connection whose table city_equivalences is eq; rev tells the order in
\* which the engine stores the distinct values.  Statement 1 is
\* COUNT(DISTINCT base).  With more distinct values than max_uniques: 2 ALTER,
\* 3 COUNT(*), 4.. one UPDATE per rowid below the count.  Otherwise: 2 CREATE
\* TABLE city_equivalences, 3.. one UPDATE per rowid of it below the number
\* of distinct values n, 3 + n ALTER, 4 + n the UPDATE that joins.
AddSynCityColumn(s, eq, base, name, max_uniques, rev, f) ==
  LET new == IF IsNone(name) THEN "syn_" \o base ELSE Get(name)
  IN IF f = 1 \/ ~HasCol(s.t, base)
     THEN [s |-> s, out |-> "EngineError", err |-> "count_distinct", ret |-> "raised", equiv |-> eq]
     ELSE
       LET cells == Column(s.t, base)
           n == Len(Distinct(NonNull(cells)))
           a == AddColStmt(s.t, new, "VARCHAR")
           sa == St(a.t, s.views, TableRel(a.t))
           total == RowCount(s.t)
           \* the first branch: the rows with a rowid below upto get a city
           each(upto) == SetColumn(a.t, new, [r \in 1..total |->
                                      IF a.t.rows[r].rid < upto THEN City(a.t.rows[r].rid) ELSE Null])
           \* the second branch: the equivalences with the first upto filled
           keys == IF rev THEN Reverse(Distinct(cells)) ELSE Distinct(cells)
           table(upto) == [exists |-> TRUE,
                           rows |-> [i \in 1..Len(keys) |->
                                       [key |-> keys[i], city |-> IF i <= upto THEN City(i - 1) ELSE Null]]]
           full == table(n)
           CityOf(c) == IF \E i \in 1..Len(keys) : ~IsNull(c) /\ keys[i] = c
                        THEN full.rows[CHOOSE i \in 1..Len(keys) : keys[i] = c].city
                        ELSE Null
           joined == SetColumn(a.t, new, [r \in 1..total |-> CityOf(cells[r])])
       IN IF n > max_uniques
          THEN IF f = 2 \/ ~a.ok THEN CityHandler(s, eq, "alter")
               ELSE IF f = 3 THEN CityHandler(sa, eq, "count")
               ELSE IF f >= 4 /\ f < 4 + total
               THEN CityHandler(St(each(f - 4), s.views, TableRel(a.t)), eq, "update")
               ELSE [s |-> St(each(total), s.views, TableRel(a.t)), out |-> "ok", err |-> "none",
                     ret |-> "self", equiv |-> eq]
          ELSE IF f = 2 \/ eq.exists \/ Lower(new) = Lower(base) THEN CityHandler(s, eq, "create")
               ELSE IF f >= 3 /\ f < 3 + n THEN CityHandler(s, table(f - 3), "update")
               ELSE IF f = 3 + n \/ ~a.ok THEN CityHandler(s, full, "alter")
               ELSE IF f = 4 + n THEN CityHandler(sa, full, "update")
               ELSE [s |-> St(joined, s.views, TableRel(joined)), out |-> "ok", err |-> "none",
                     ret |-> "self", equiv |-> full]

(***************************************************************************)
(* The column-replacing generators.  Each one stages a column temp with    *)
(* the add_* method, adopts it with replace_column(base, temp) and cleans  *)
(* up with drop_column(temp).  fl names the statement that raises in each  *)
(* phase: fl.stage, fl.adopt, fl.cleanup, and fl.rescue for the            *)
(* drop_column of the except handler.                                      *)
(***************************************************************************)
NoFaults == [stage |-> 0, adopt |-> 0, cleanup |-> 0, rescue |-> 0]

\* The error a result surfaces, and the error of the step that failed first
\* (a result records it where the method raised something else instead).
ErrorOf(r) == [out |-> r.out, err |-> r.err]
FirstOf(r) == IF "first" \in DOMAIN r THEN r.first ELSE ErrorOf(r)

\* The check every generator with a handler starts with.
KnownColumn(s, column) ==
  IF s.data.kind = "none" THEN "no_data"
  ELSE IF ~InList(Lower(column), LowerAll(s.data.cols)) THEN "unknown_column"
  ELSE "none"

\* The three calls in a row; r1 is the result of the stage.
Phases(r1, base, temp, fl) ==
  IF r1.out /= "ok" THEN r1
  ELSE LET r2 == ReplaceColumn(r1.s, <<base>>, <<temp>>, fl.adopt)
       IN IF r2.out /= "ok" THEN r2 ELSE DropColumn(r2.s, <<temp>>, fl.cleanup)

\* The phases under the except clause of the generator:
\*   "none"            no handler, or one that only re-raises
\*   "drop"            try: drop_column(temp) except: pass; raise e
\*   "drop_if_listed"  the same, where temp is in the column list read
\*                     before the stage
\* staged tells whether the stage left a column temp that was not there.
Generator(s, r1, base, temp, handler, fl) ==
  LET body == Phases(r1, base, temp, fl)
      rescued == DropColumn(body.s, <<temp>>, fl.rescue)
      listed == InList(Lower(temp), LowerAll(s.data.cols))
      after == IF body.out = "ok" \/ handler = "none" THEN body.s
               ELSE IF handler = "drop_if_listed" /\ ~listed THEN body.s
               ELSE rescued.s
  IN [s |-> after, out |-> body.out, err |-> body.err,
      ret |-> IF body.out = "ok" THEN "self" ELSE "raised",
      first |-> FirstOf(body),
      staged |-> [name |-> temp, added |-> HasCol(r1.s.t, temp) /\ ~HasCol(s.t, temp)]]

\* gaussian_column(column_name).
GaussianColumn(s, vid, column, draws, lenient, fl) ==
  IF KnownColumn(s, column) /= "none" THEN Raise(s, "ValueError", KnownColumn(s, column))
  ELSE Generator(s, AddGaussianNoiseColumn(s, vid, column, "noised_" \o column, draws, lenient, fl.stage),
                 column, "noised_" \o column, "drop_if_listed", fl)

\* impulse_column(column_name, sample_pct, n_samples, impulse_mag, impulse_pct).
ImpulseColumn(s, column, sample_pct, n_samples, impulse_mag, impulse_pct, order, sign, fl) ==
  IF KnownColumn(s, column) /= "none" THEN Raise(s, "ValueError", KnownColumn(s, column))
  ELSE Generator(s, AddImpulseNoiseColumn(s, column, "noised_impulse_" \o column, sample_pct, n_samples,
                                          impulse_mag, impulse_pct, order, sign, fl.stage),
                 column, "noised_impulse_" \o column, "drop", fl)

\* salt_pepper_column(column_name, sample_pct, n_samples).
SaltPepperColumn(s, column, sample_pct, n_samples, order, salt, fl) ==
  IF KnownColumn(s, column) /= "none" THEN Raise(s, "ValueError", KnownColumn(s, column))
  ELSE Generator(s, AddSaltPepperNoiseColumn(s, column, "noised_salt_pepper_" \o column, sample_pct,
                                             n_samples, order, salt, fl.stage),
                 column, "noised_salt_pepper_" \o column, "drop", fl)

\* integer_range_column(base_column, num_ranges, range_size, only_start,
\* min_range_start).
IntegerRangeColumn(s, vid, column, num_ranges, range_size, only_start, min_start, fl) ==
  IF KnownColumn(s, column) /= "none" THEN Raise(s, "ValueError", KnownColumn(s, column))
  ELSE Generator(s, AddIntegerRangeColumn(s, vid, column, "range_" \o column, num_ranges, range_size,
                                          only_start, min_start, fl.stage),
                 column, "range_" \o column, "drop", fl)

\* mask_column(base_column, mask_left, mask_right, mask_char): the three
\* calls with no handler around them.
MaskColumn(s, column, ml, mr, chs, fl) ==
  Generator(s, AddMaskedColumn(s, column, "masked_" \o column, ml, mr, chs, fl.stage),
            column, "masked_" \o column, "none", fl)

\* age_range_column(base_column, min_age, only_adult, num_ranges, range_size,
\* only_start).
AgeRangeColumn(s, vid, column, min_age, only_adult, num_ranges, range_size, only_start, fl) ==
  IF KnownColumn(s, column) /= "none" THEN Raise(s, "ValueError", KnownColumn(s, column))
  ELSE Generator(s, AddAgeRangeColumn(s, vid, column, "range_age_" \o column, min_age, only_adult,
                                      num_ranges, range_size, only_start, fl.stage),
                 column, "range_age_" \o column, "drop", fl)

\* syn_date_column(base_column, start_date, end_date).
SynDateColumn(s, vid, column, start_date, end_date, late, fl) ==
  IF KnownColumn(s, column) /= "none" THEN Raise(s, "ValueError", KnownColumn(s, column))
  ELSE Generator(s, AddSynDateColumn(s, vid, Some(column), Some("_temp_syn_date_" \o column),
                                     start_date, end_date, late, fl.stage),
                 column, "_temp_syn_date_" \o column, "drop", fl)

\* syn_city_column(base_column, max_uniques): each of the three calls in a
\* try of its own whose handler re-raises.
SynCityColumn(s, eq, column, max_uniques, rev, fl) ==
  LET r1 == AddSynCityColumn(s, eq, column, Some("syn_" \o column), max_uniques, rev, fl.stage)
      g == Generator(s, r1, column, "syn_" \o column, "none", fl)
  IN [s |-> g.s, out |-> g.out, err |-> g.err, ret |-> g.ret, first |-> g.first,
      staged |-> g.staged, equiv |-> r1.equiv]

\* mask_mail_column(base_column, mask_user, mask_domain, domain_choices):
\* the three calls with no handler around them.
MaskMailColumn(s, column, mask_user, mask_domain, domain_choices, draw, desc, fl) ==
  Generator(s, AddMaskedMailColumn(s, column, Some("masked_" \o column), mask_user, mask_domain,
                                   domain_choices, draw, desc, fl.stage),
            column, "masked_" \o column, "none", fl)

(***************************************************************************)
(* The handle as a state machine: one CS object, its canonical table, the   *)
(* temporary views registered on its connection, and self.data.  Every      *)
(* action is one call of a public method with arguments drawn from a small   *)
(* set; f > 0 makes the f-th statement of the call raise in the engine.      *)
(***************************************************************************)
VARIABLES
  tab,     \* the canonical table
  views,   \* the temporary views registered on the connection
  data,    \* self.data
  last,    \* the last call: method, arguments, outcome, state before it
  added,   \* the successful add_column made right before the last call, if any
  nops,    \* the number of calls made
  equiv,   \* the table city_equivalences of the connection
  naming,  \* _table_name_prefix, _table_name_separator and _table_name_gen
  issued,  \* the names next(_table_name_gen) has returned, oldest first, each
           \* with the prefix and separator in force at its call and its
           \* ordinal k
  since,   \* the number of names returned since the process started or
           \* set_table_name_separator was last called
  threads  \* the calls in progress on the handle, statement by statement

handle == <<tab, views, data, last, added, nops, equiv, threads>>
names == <<naming, issued, since>>
vars == <<tab, views, data, last, added, nops, equiv, naming, issued, since, threads>>

Cur == St(tab, views, data)

(***************************************************************************)
(* analize.py: groups, and groupings of rows.py.  Both only query the      *)
(* canonical table.  A returned relation is the sequence of its rows:      *)
(* [n, count, data] with n the numeric suffix of the group label.          *)
(***************************************************************************)
\* base_column: None, one name or a list of names.
NoBase == [k |-> "none", l |-> <<>>]
OneBase(name) == [k |-> "str", l |-> <<name>>]
ListBase(l) == [k |-> "list", l |-> l]

\* The grouping key of row r of t: its cells in the columns cols.
GroupKey(t, cols, r) == [i \in 1..Len(cols) |-> t.rows[r].vals[ColPos(t, cols[i])]]

\* GROUP BY cols: the distinct keys, in the order the engine numbers them
\* (one of two: that of first appearance, or its reverse), and the number of
\* rows of each.
GroupKeys(t, cols, rev) ==
  LET keys == Distinct([r \in 1..RowCount(t) |-> GroupKey(t, cols, r)])
  IN IF rev THEN Reverse(keys) ELSE keys

GroupCount(t, cols, key) == Cardinality({r \in 1..RowCount(t) : GroupKey(t, cols, r) = key})

\* ORDER BY count [DESC], n [DESC] over the groups S, given as positions into
\* the sequences cnt and num.
RECURSIVE OrderGroups(_, _, _, _, _)
OrderGroups(S, cnt, num, count_desc, n_desc) ==
  IF S = {} THEN <<>>
  ELSE
    LET before(x, y) ==
          \/ IF count_desc THEN cnt[x] > cnt[y] ELSE cnt[x] < cnt[y]
          \/ cnt[x] = cnt[y] /\ (IF n_desc THEN num[x] >= num[y] ELSE num[x] <= num[y])
        m == CHOOSE x \in S : \A y \in S : before(x, y)
    IN <<m>> \o OrderGroups(S \ {m}, cnt, num, count_desc, n_desc)

\* The columns groups and groupings group by.
GroupColumns(s, base) == IF base.k = "none" THEN s.data.cols ELSE base.l

\* The engine can run the grouping query.
GroupQueryOk(t, cols) ==
  /\ t.exists
  /\ cols /= <<>>
  /\ \A i \in 1..Len(cols) : HasCol(t, cols[i])

\* A returned relation.
Rel(s, rows) == [s |-> s, out |-> "ok", err |-> "none", ret |-> "rel", rows |-> rows]

\* groups(base_column, order_by) with the default count filter '? > 0' and no
\* limit.  The label suffix is ROW_NUMBER() OVER (ORDER BY (SELECT NULL));
\* the result is ordered by "Count", CAST(suffix AS INTEGER) <order_by>: the
\* direction is that of the second key.  Statement 1 is the query.
Groups(s, base, order_by, rev, f) ==
  LET cols == GroupColumns(s, base)
      keys == GroupKeys(s.t, cols, rev)
      cnt == [i \in 1..Len(keys) |-> GroupCount(s.t, cols, keys[i])]
      num == [i \in 1..Len(keys) |-> i]
      ord == OrderGroups(1..Len(keys), cnt, num, FALSE, order_by = "DESC")
  IN IF s.data.kind = "none" THEN Raise(s, "ValueError", "no_data")
     ELSE IF base.k /= "none" /\ \E i \in 1..Len(cols) : ~InList(cols[i], s.data.cols)
     THEN Raise(s, "ValueError", "unknown_column")
     ELSE IF order_by \notin {"ASC", "DESC"} THEN Raise(s, "ValueError", "bad_order")
     ELSE IF f = 1 \/ ~GroupQueryOk(s.t, cols) THEN Raise(s, "EngineError", "query")
     ELSE Rel(s, [i \in 1..Len(ord) |->
                    [n |-> num[ord[i]], count |-> cnt[ord[i]],
                     data |-> [j \in 1..Len(cols) |-> CastCell(keys[ord[i]][j], "VARCHAR").c]]])

\* groupings(base_column, order_by) without limit.  The label suffix is
\* ROW_NUMBER() OVER (ORDER BY group_count), the result is ordered by "Count"
\* <order_by>; any order_by other than DESC is taken as ASC.  Rows of equal
\* count come in one of two orders.  The relation has no data column.
Groupings(s, base, order_by, rev, f) ==
  LET cols == GroupColumns(s, base)
      keys == GroupKeys(s.t, cols, rev)
      cnt == [i \in 1..Len(keys) |-> GroupCount(s.t, cols, keys[i])]
      pos == [i \in 1..Len(keys) |-> i]
      byCount == OrderGroups(1..Len(keys), cnt, pos, FALSE, FALSE)
      rn == [i \in 1..Len(keys) |-> CHOOSE k \in 1..Len(keys) : byCount[k] = i]
      ord == OrderGroups(1..Len(keys), cnt, rn, order_by = "DESC", rev)
  IN IF s.data.kind = "none" THEN Raise(s, "ValueError", "no_data")
     ELSE IF f = 1 \/ ~GroupQueryOk(s.t, cols) THEN Raise(s, "EngineError", "query")
     ELSE Rel(s, [i \in 1..Len(ord) |->
                    [n |-> rn[ord[i]], count |-> cnt[ord[i]], data |-> <<>>]])

(***************************************************************************)
(* __init__.py: the generator of table names.  Texts are sequences of       *)
(* characters.                                                             *)
(***************************************************************************)
DefaultPrefix == <<"t", "a", "b", "l", "e">>
DefaultSeparator == <<"_">>

\* table_name_generator(): a generator that has not run yet.
TableNameGenerator == [started |-> FALSE, seq |-> 0]

\* next(g): the generator runs to its next yield; the f-string is evaluated
\* with the prefix and separator of that moment.
Resume(g) == IF g.started THEN [g EXCEPT !.seq = @ + 1] ELSE [started |-> TRUE, seq |-> 0]
Yielded(g, pre, sep) == pre \o sep \o NatDigits(g.seq)

\* The module's globals right after `import cellshift`.
Globals == [prefix |-> DefaultPrefix, separator |-> DefaultSeparator, gen |-> TableNameGenerator]

\* next(_table_name_gen): the globals after it, and the name it returns.
NextTableName(g) == [g EXCEPT !.gen = Resume(@)]
TableName(g) == Yielded(g.gen, g.prefix, g.separator)

\* CS.set_table_name_prefix(p).
SetTableNamePrefix(g, p) == [g EXCEPT !.prefix = p]

\* A variant of set_table_name_separator that keeps the running generator.
SetSeparatorKeepGenerator(g, sp) == [g EXCEPT !.separator = sp]

\* CS.set_table_name_separator(sp).
SetTableNameSeparator(g, sp) == [g EXCEPT !.separator = sp, !.gen = TableNameGenerator]

\* The entry of `issued` for the name the globals g have just returned.
Issue(g, k) == [name |-> TableName(g), k |-> k, prefix |-> g.prefix, separator |-> g.separator]

\* CS.__init__: self._tablename = next(_table_name_gen).
NewHandle ==
  /\ Len(issued) < MaxNames
  /\ naming' = NextTableName(naming)
  /\ issued' = Append(issued, Issue(naming', since + 1))
  /\ since' = since + 1

Prefixes == {DefaultPrefix, <<"c", "s">>, <<"t", "1">>}
Separators == {DefaultSeparator, <<"-">>, <<>>}

SetPrefixCall ==
  \E p \in Prefixes :
    /\ naming' = SetTableNamePrefix(naming, p)
    /\ UNCHANGED <<issued, since>>

SetSeparatorCall ==
  \E sp \in Separators :
    /\ naming' = SetTableNameSeparator(naming, sp)
    /\ since' = 0
    /\ UNCHANGED issued

NoStaged == [name |-> "", added |-> FALSE]
NoCall == [op |-> "none", args |-> <<>>, out |-> "ok", err |-> "none", ret |-> "self",
           pre |-> St(NoTable, {}, NoData), vid |-> 0,
           first |-> [out |-> "ok", err |-> "none"], staged |-> NoStaged, picks |-> <<>>,
           rows |-> <<>>]
NoAdd == [some |-> FALSE, name |-> "", t |-> NoTable]

\* No call in progress: every call runs from its first statement to its
\* return before the next one starts.
NoProjection == [ok |-> FALSE, cols |-> <<>>, types |-> <<>>, vals |-> <<>>]
NoThread == [op |-> "none", name |-> "", source |-> "", pc |-> "idle", vid |-> 0,
             cols |-> <<>>, new_data |-> NoProjection, out |-> "none"]
NoThreads == [mode |-> "sequential", missing |-> FALSE, t |-> <<NoThread, NoThread>>]

\* The rows a handle is constructed over: a is BIGINT, b is VARCHAR.
InitRow(i, with_null) ==
  <<IF with_null /\ i = 1 THEN Null ELSE IntC(10 + i), StrC(<<"u", DigitChars[i + 1]>>)>>

InitTable(n, with_null) ==
  MkTable(<<"a", "b">>, <<"BIGINT", "VARCHAR">>, [i \in 1..n |-> InitRow(i, with_null)])

InitTables == {InitTable(0, FALSE), InitTable(MaxRows, FALSE), InitTable(MaxRows, TRUE)}

\* CS(input_data): the data loaded into the canonical table and self.data
\* bound to it, or nothing loaded where the input is not supported.
Init ==
  /\ \/ /\ tab \in InitTables
        /\ data = TableRel(tab)
     \/ /\ tab = NoTable
        /\ data = NoData
  /\ views = {}
  /\ last = NoCall
  /\ added = NoAdd
  /\ nops = 0
  /\ equiv = NoEquiv
  /\ threads = NoThreads
  /\ naming = NextTableName(Globals)
  /\ issued = <<Issue(naming, 1)>>
  /\ since = 1

\* One call of method op with arguments args whose result is r.  The
\* temporary view of the call, if it registers one, is named after nops.
\* first, staged and picks record what happened inside the call: the error
\* of the step that failed first, the staged column of a generator, and the
\* rowids a noise method drew; rows are the rows of a returned relation.
Call(op, args, r) ==
  /\ nops < MaxOps
  /\ tab' = r.s.t
  /\ views' = r.s.views
  /\ data' = r.s.data
  /\ last' = [op |-> op, args |-> args, out |-> r.out, err |-> r.err, ret |-> r.ret,
              pre |-> Cur, vid |-> nops,
              first |-> FirstOf(r),
              staged |-> IF "staged" \in DOMAIN r THEN r.staged ELSE NoStaged,
              picks |-> IF "picks" \in DOMAIN r THEN r.picks ELSE <<>>,
              rows |-> IF "rows" \in DOMAIN r THEN r.rows ELSE <<>>]
  /\ added' = IF last.op = "add_column" /\ last.out = "ok"
              THEN [some |-> TRUE, name |-> last.args.name, t |-> last.pre.t]
              ELSE NoAdd
  /\ nops' = nops + 1
  /\ equiv' = IF "equiv" \in DOMAIN r THEN r.equiv ELSE equiv
  /\ UNCHANGED <<names, threads>>

\* The list handed to add_column: n whole numbers.
Vec(n) == [i \in 1..n |-> IntC(70 + i)]

\* The draws of the normal distribution, as whole numbers.
Draws(n) == [i \in 1..n |-> DblC(20 + i)]

\* Two of the orders in which the sampler can draw the rowids below n.
Orders(n) == {[i \in 1..n |-> i - 1], [i \in 1..n |-> n - i]}

AddColumnArgs ==
  {[name |-> "z", n |-> n, f |-> 0] : n \in 0..MaxRows}
  \cup {[name |-> nm, n |-> MaxRows, f |-> 0] : nm \in {"B", "9z"}}
  \cup {[name |-> "z", n |-> MaxRows, f |-> f] : f \in 1..5}

AddColumnCall ==
  \E a \in AddColumnArgs :
    Call("add_column", a, AddColumn(Cur, nops, Vec(a.n), "BIGINT", a.name, a.f))

DropColumnArgs ==
  {[names |-> ns, f |-> 0] : ns \in {<<>>, <<"a">>, <<"z">>, <<"q">>, <<"a", "b">>}}
  \cup {[names |-> ns, f |-> f] : ns \in {<<"a">>, <<"z">>}, f \in 1..3}

DropColumnCall ==
  \E a \in DropColumnArgs : Call("drop_column", a, DropColumn(Cur, a.names, a.f))

ReplaceColumnArgs ==
  {[targets |-> p[1], sources |-> p[2], f |-> 0] :
     p \in {<<<<"a">>, <<"b">>>>, <<<<"a">>, <<"a">>>>, <<<<"a">>, <<"q">>>>, <<<<"q">>, <<"a">>>>,
            <<<<"a", "b">>, <<"b", "a">>>>, <<<<"a">>, <<"a", "b">>>>, <<<<>>, <<>>>>}}
  \cup {[targets |-> <<"a">>, sources |-> <<"b">>, f |-> f] : f \in 1..3}

ReplaceColumnCall ==
  \E a \in ReplaceColumnArgs :
    Call("replace_column", a, ReplaceColumn(Cur, a.targets, a.sources, a.f))

RenameColumnArgs ==
  {[olds |-> p[1], news |-> p[2], f |-> 0] :
     p \in {<<<<>>, <<>>>>, <<<<"a">>, <<"b">>>>, <<<<"a", "b">>, <<"y", "z">>>>,
            <<<<"a", "b">>, <<"y", "a">>>>, <<<<"a">>, <<"9z">>>>,
            <<<<"a">>, <<"y", "z">>>>, <<<<"q">>, <<"y">>>>}}
  \cup {[olds |-> <<"a", "b">>, news |-> <<"y", "z">>, f |-> f] : f \in 1..2}

RenameColumnCall ==
  \E a \in RenameColumnArgs :
    Call("rename_column", a, RenameColumn(Cur, a.olds, a.news, a.f))

SetColumnTypeArgs ==
  {[names |-> p[1], types |-> p[2], f |-> 0] :
     p \in {<<<<>>, <<>>>>, <<<<"a">>, <<"VARCHAR">>>>, <<<<"a", "b">>, <<"DOUBLE", "BIGINT">>>>,
            <<<<"a">>, <<"NOTATYPE">>>>, <<<<"q">>, <<"VARCHAR">>>>, <<<<"a">>, <<>>>>}}
  \cup {[names |-> <<"a">>, types |-> <<"VARCHAR">>, f |-> 1]}

SetColumnTypeCall ==
  \E a \in SetColumnTypeArgs :
    Call("set_column_type", a, SetColumnType(Cur, a.names, a.types, a.f))

AddMaskedColumnArgs ==
  {[base |-> "a", name |-> "m", ml |-> 1, mr |-> 1, chs |-> <<"*">>, f |-> f] : f \in 0..2}
  \cup {[base |-> "b", name |-> "m", ml |-> 1, mr |-> 0, chs |-> <<"#", "*">>, f |-> 0],
        [base |-> "a", name |-> "m", ml |-> 0 - 1, mr |-> 0, chs |-> <<"*">>, f |-> 0],
        [base |-> "q", name |-> "m", ml |-> 1, mr |-> 1, chs |-> <<"*">>, f |-> 0]}

AddMaskedColumnCall ==
  \E a \in AddMaskedColumnArgs :
    Call("add_masked_column", a, AddMaskedColumn(Cur, a.base, a.name, a.ml, a.mr, a.chs, a.f))

AddGaussianNoiseColumnArgs ==
  {[base |-> "a", name |-> "g", lenient |-> FALSE, f |-> f] : f \in 0..2}
  \cup {[base |-> "a", name |-> "g", lenient |-> TRUE, f |-> 0]}
  \cup {[base |-> b, name |-> "g", lenient |-> FALSE, f |-> 0] : b \in {"b", "q"}}

AddGaussianNoiseColumnCall ==
  \E a \in AddGaussianNoiseColumnArgs :
    Call("add_gaussian_noise_column", a,
         AddGaussianNoiseColumn(Cur, nops, a.base, a.name, Draws(RowCount(tab)), a.lenient, a.f))

\* The sampling arguments: a count, a percentage, a percentage that is not a
\* whole number of rows, both, a count above the number of rows, neither.
SampleArgs ==
  {[sample_pct |-> None, n_samples |-> Some(1)],
   [sample_pct |-> Some(50), n_samples |-> None],
   [sample_pct |-> Some(75), n_samples |-> None],
   [sample_pct |-> Some(75), n_samples |-> Some(1)]}

BadSampleArgs ==
  {[sample_pct |-> None, n_samples |-> Some(MaxRows + MaxOps)],
   [sample_pct |-> None, n_samples |-> None]}

AddImpulseNoiseColumnArgs ==
  {[base |-> "a", name |-> "n", sample |-> sm, impulse_mag |-> Some(1), impulse_pct |-> None,
    order |-> o, sign |-> sg, f |-> 0] :
     sm \in SampleArgs, o \in Orders(RowCount(tab)), sg \in {0 - 1, 1}}
  \cup {[base |-> "a", name |-> "n", sample |-> sm, impulse_mag |-> Some(1), impulse_pct |-> None,
         order |-> <<>>, sign |-> 1, f |-> 0] : sm \in BadSampleArgs}
  \cup {[base |-> "a", name |-> "n", sample |-> [sample_pct |-> None, n_samples |-> Some(1)],
         impulse_mag |-> m, impulse_pct |-> m,
         order |-> [i \in 1..RowCount(tab) |-> i - 1], sign |-> 1, f |-> 0] : m \in {None, Some(1)}}
  \cup {[base |-> b, name |-> "n", sample |-> [sample_pct |-> None, n_samples |-> Some(1)],
         impulse_mag |-> None, impulse_pct |-> Some(100),
         order |-> [i \in 1..RowCount(tab) |-> i - 1], sign |-> 1, f |-> f] :
          b \in {"a", "b"}, f \in 0..5}

AddImpulseNoiseColumnCall ==
  \E a \in AddImpulseNoiseColumnArgs :
    Call("add_impulse_noise_column", a,
         AddImpulseNoiseColumn(Cur, a.base, a.name, a.sample.sample_pct, a.sample.n_samples,
                               a.impulse_mag, a.impulse_pct, a.order, a.sign, a.f))

AddSaltPepperNoiseColumnArgs ==
  {[base |-> "a", name |-> "n", sample |-> sm, order |-> o, salt |-> sp, f |-> 0] :
     sm \in SampleArgs, o \in Orders(RowCount(tab)), sp \in BOOLEAN}
  \cup {[base |-> "a", name |-> "n", sample |-> sm, order |-> <<>>, salt |-> TRUE, f |-> 0] :
          sm \in BadSampleArgs}
  \cup {[base |-> b, name |-> "n", sample |-> [sample_pct |-> None, n_samples |-> Some(1)],
         order |-> [i \in 1..RowCount(tab) |-> i - 1], salt |-> TRUE, f |-> f] :
          b \in {"a", "b"}, f \in 1..5}

AddSaltPepperNoiseColumnCall ==
  \E a \in AddSaltPepperNoiseColumnArgs :
    Call("add_salt_pepper_noise_column", a,
         AddSaltPepperNoiseColumn(Cur, a.base, a.name, a.sample.sample_pct, a.sample.n_samples,
                                  a.order, a.salt, a.f))

RangeArgs ==
  {[base |-> "a", name |-> "r", num_ranges |-> Some(2), range_size |-> None,
    only_start |-> os, min_start |-> None, f |-> 0] : os \in BOOLEAN}
  \cup {[base |-> "a", name |-> "r", num_ranges |-> None, range_size |-> Some(2),
         only_start |-> FALSE, min_start |-> ms, f |-> f] : ms \in {None, Some(0)}, f \in 0..3}
  \cup {[base |-> b, name |-> "r", num_ranges |-> nr, range_size |-> Some(2),
         only_start |-> FALSE, min_start |-> None, f |-> 0] :
          b \in {"a", "b"}, nr \in {None, Some(2)}}

AddIntegerRangeColumnCall ==
  \E a \in RangeArgs :
    Call("add_integer_range_column", a,
         AddIntegerRangeColumn(Cur, nops, a.base, a.name, a.num_ranges, a.range_size,
                               a.only_start, a.min_start, a.f))

AddFloatRangeColumnCall ==
  \E a \in RangeArgs :
    Call("add_float_range_column", a,
         AddFloatRangeColumn(Cur, nops, a.base, a.name, a.num_ranges, a.range_size,
                             a.only_start, a.min_start, a.f))

RowArgs ==
  {[cols |-> <<"a">>, cond |-> [kind |-> "gt", k |-> 11], all_and |-> TRUE, f |-> f] : f \in 0..2}
  \cup {[cols |-> p[1], cond |-> p[2], all_and |-> TRUE, f |-> 0] :
          p \in {<<<<"a">>, [kind |-> "gt", k |-> 99]>>,
                 <<<<"a", "b">>, [kind |-> "is_null", k |-> 0]>>,
                 <<<<"a">>, [kind |-> "no_meta", k |-> 0]>>,
                 <<<<"q">>, [kind |-> "gt", k |-> 11]>>,
                 <<<<>>, [kind |-> "gt", k |-> 11]>>}}
  \cup {[cols |-> <<"a", "b">>, cond |-> [kind |-> "is_null", k |-> 0], all_and |-> FALSE, f |-> 0]}

RemoveRowsCall ==
  \E a \in RowArgs : Call("remove_rows", a, RemoveRows(Cur, a.cols, a.cond, a.all_and, a.f))

FilterRowsCall ==
  \E a \in RowArgs : Call("filter_rows", a, FilterRows(Cur, a.cols, a.cond, a.all_and, a.f))

SqlArgs ==
  {[stmt |-> [kind |-> "select", cols |-> c], in_place |-> ip, f |-> 0] :
     c \in {<<"a">>, <<"a", "b">>}, ip \in BOOLEAN}
  \cup {[stmt |-> [kind |-> k, cols |-> <<>>], in_place |-> TRUE, f |-> f] :
          k \in {"delete", "syntax"}, f \in 0..1}

SqlCall ==
  \E a \in SqlArgs : Call("sql", a, Sql(Cur, a.stmt, a.in_place, a.f))

AddDataArgs ==
  {[kind |-> "frame", batch |-> <<<<IntC(30), StrC(<<"u", "n">>)>>>>, f |-> f] : f \in 0..1}
  \cup {[kind |-> "other", batch |-> <<>>, f |-> 0]}

AddDataCall ==
  \E a \in AddDataArgs : Call("add_data", a, AddData(Cur, a.kind, a.batch, a.f))

Next ==
  \/ AddColumnCall
  \/ DropColumnCall
  \/ ReplaceColumnCall
  \/ RenameColumnCall
  \/ SetColumnTypeCall
  \/ AddMaskedColumnCall
  \/ AddGaussianNoiseColumnCall
  \/ AddImpulseNoiseColumnCall
  \/ AddSaltPepperNoiseColumnCall
  \/ AddIntegerRangeColumnCall
  \/ AddFloatRangeColumnCall
  \/ RemoveRowsCall
  \/ FilterRowsCall
  \/ SqlCall
  \/ AddDataCall

Spec == Init /\ [][Next]_vars

(***************************************************************************)
(* The generators as a state machine over the same handle.                 *)
(***************************************************************************)
\* The fault plans of a generator whose stage has k statements: no fault, one
\* in the stage, one in the adoption, one in the cleanup, and one in the
\* adoption followed by one in the drop_column of the handler.
FaultPlans(k) ==
  {NoFaults}
  \cup {[NoFaults EXCEPT !.stage = f] : f \in 1..k}
  \cup {[NoFaults EXCEPT !.adopt = f] : f \in 1..3}
  \cup {[NoFaults EXCEPT !.cleanup = f] : f \in 1..3}
  \cup {[NoFaults EXCEPT !.adopt = 1, !.rescue = 3]}

PlansFor(column, k) == IF column = "a" THEN FaultPlans(k) ELSE {NoFaults}

\* One call of a generator: at most MaxGenOps of them on one handle.
GenCall(op, args, r) == nops < MaxGenOps /\ Call(op, args, r)

AscendingOrder == [i \in 1..RowCount(tab) |-> i - 1]

GaussianColumnCall ==
  \E column \in {"a", "b", "q"} : \E fl \in PlansFor(column, 3) :
    GenCall("gaussian_column", [column |-> column, fl |-> fl],
            GaussianColumn(Cur, nops, column, Draws(RowCount(tab)), FALSE, fl))

ImpulseColumnCall ==
  \E column \in {"a", "b", "q"} : \E fl \in PlansFor(column, 5) :
    GenCall("impulse_column", [column |-> column, fl |-> fl],
            ImpulseColumn(Cur, column, None, Some(1), Some(1), None, AscendingOrder, 1, fl))

SaltPepperColumnCall ==
  \E column \in {"a", "b"} : \E fl \in PlansFor(column, 5) :
    GenCall("salt_pepper_column", [column |-> column, fl |-> fl],
            SaltPepperColumn(Cur, column, None, Some(1), AscendingOrder, TRUE, fl))

IntegerRangeColumnCall ==
  \E column \in {"a", "b"} : \E fl \in PlansFor(column, 3) :
    GenCall("integer_range_column", [column |-> column, fl |-> fl],
            IntegerRangeColumn(Cur, nops, column, None, Some(2), FALSE, None, fl))

AgeArgs ==
  {[min_age |-> None, only_adult |-> FALSE], [min_age |-> None, only_adult |-> TRUE],
   [min_age |-> Some(12), only_adult |-> FALSE], [min_age |-> Some(12), only_adult |-> TRUE]}

AddAgeRangeColumnCall ==
  \E a \in AgeArgs : \E base \in {"a", "q"} : \E f \in {0, 1, 8, 9, 10} :
    /\ base = "a" \/ f = 0
    /\ GenCall("add_age_range_column",
               [base |-> base, name |-> "r", min_age |-> a.min_age, only_adult |-> a.only_adult, f |-> f],
               AddAgeRangeColumn(Cur, nops, base, "r", a.min_age, a.only_adult, None, Some(2), FALSE, f))

AgeRangeColumnCall ==
  \E a \in AgeArgs : \E fl \in {NoFaults, [NoFaults EXCEPT !.stage = 10], [NoFaults EXCEPT !.adopt = 3]} :
    GenCall("age_range_column",
            [column |-> "a", min_age |-> a.min_age, only_adult |-> a.only_adult, fl |-> fl],
            AgeRangeColumn(Cur, nops, "a", a.min_age, a.only_adult, None, Some(2), FALSE, fl))

MaskColumnCall ==
  \E column \in {"a", "b", "q"} : \E fl \in PlansFor(column, 2) :
    GenCall("mask_column", [column |-> column, ml |-> 1, mr |-> 0, chs |-> <<"*">>, fl |-> fl],
            MaskColumn(Cur, column, 1, 0, <<"*">>, fl))

\* Dates in the arguments: two days and a text that is no date.
DateArgs ==
  {[start_date |-> Some(<<"3">>), end_date |-> Some(<<"9">>)],
   [start_date |-> Some(<<"3">>), end_date |-> None],
   [start_date |-> None, end_date |-> Some(<<"1", "2">>)],
   [start_date |-> Some(<<"9">>), end_date |-> Some(<<"3">>)],
   [start_date |-> None, end_date |-> None],
   [start_date |-> Some(<<"x">>), end_date |-> None]}

AddSynDateColumnCall ==
  \E d \in DateArgs : \E base \in {None, Some("a"), Some("b"), Some("q")} :
  \E name \in {None, Some("s")} : \E late \in BOOLEAN : \E f \in 0..3 :
    /\ (base = Some("a") /\ name = None) \/ f = 0
    /\ GenCall("add_syn_date_column",
               [base |-> base, name |-> name, start_date |-> d.start_date, end_date |-> d.end_date,
                late |-> late, f |-> f],
               AddSynDateColumn(Cur, nops, base, name, d.start_date, d.end_date, late, f))

SynDateColumnCall ==
  \E d \in DateArgs : \E column \in {"a", "b", "q"} : \E late \in BOOLEAN :
  \E fl \in PlansFor(column, 3) :
    /\ d.start_date = Some(<<"3">>) \/ fl = NoFaults
    /\ GenCall("syn_date_column",
               [column |-> column, start_date |-> d.start_date, end_date |-> d.end_date,
                late |-> late, fl |-> fl],
               SynDateColumn(Cur, nops, column, d.start_date, d.end_date, late, fl))

\* max_uniques: below and above the number of distinct values of a column.
UniquesArgs == {1, 1000}

AddSynCityColumnCall ==
  \E base \in {"a", "b", "q"} : \E name \in {None, Some("b")} : \E mu \in UniquesArgs :
  \E rev \in BOOLEAN : \E f \in 0..6 :
    /\ (base = "b" /\ name = None) \/ f = 0
    /\ GenCall("add_syn_city_column",
               [base |-> base, name |-> name, max_uniques |-> mu, rev |-> rev, f |-> f],
               AddSynCityColumn(Cur, equiv, base, name, mu, rev, f))

SynCityColumnCall ==
  \E column \in {"a", "q"} : \E mu \in UniquesArgs : \E fl \in PlansFor(column, 6) :
    GenCall("syn_city_column", [column |-> column, max_uniques |-> mu, fl |-> fl],
            SynCityColumn(Cur, equiv, column, mu, FALSE, fl))

NextGenerators ==
  \/ GaussianColumnCall
  \/ ImpulseColumnCall
  \/ SaltPepperColumnCall
  \/ IntegerRangeColumnCall
  \/ AddAgeRangeColumnCall
  \/ AgeRangeColumnCall
  \/ MaskColumnCall
  \/ AddSynDateColumnCall
  \/ SynDateColumnCall
  \/ AddSynCityColumnCall
  \/ SynCityColumnCall
  \/ (nops < MaxGenOps /\ SqlCall)

SpecGenerators == Init /\ [][NextGenerators]_vars

(***************************************************************************)
(* The masking of mail addresses as a state machine: a handle over a table *)
(* of addresses, with or without a column id.                              *)
(***************************************************************************)
\* Row i of such a table: the address is at the domain g, or at x where
\* some is set and i is a multiple of four.
MailRow(i, some) ==
  <<IntC(i), StrC(<<"u", DigitChars[(i % 10) + 1], "@">>
                  \o (IF some /\ i % 4 = 0 THEN <<"x">> ELSE <<"g">>))>>

MailTable(n, some, key) ==
  MkTable(<<key, "m">>, <<"BIGINT", "VARCHAR">>, [i \in 1..n |-> MailRow(i, some)])

InitMail ==
  /\ \E n \in 1..MaxMailRows : \E some \in BOOLEAN : \E key \in {"id", "k"} :
       tab = MailTable(n, some, key)
  /\ data = TableRel(tab)
  /\ views = {}
  /\ last = NoCall
  /\ added = NoAdd
  /\ nops = 0
  /\ equiv = NoEquiv
  /\ threads = NoThreads
  /\ naming = NextTableName(Globals)
  /\ issued = <<Issue(naming, 1)>>
  /\ since = 1

MailArgs ==
  {[mask_user |-> Flag(FALSE), mask_domain |-> Flag(TRUE), domain_choices |-> Texts(l), draw |-> 1] :
     l \in {<<<<"x">>>>, <<<<"x">>, <<"y">>>>, <<<<"x">>, <<"y">>, <<"z">>>>}}
  \cup {[mask_user |-> u, mask_domain |-> Flag(TRUE), domain_choices |-> Flag(FALSE), draw |-> d] :
          u \in {Flag(FALSE), Flag(TRUE)}, d \in {1, 5}}
  \cup {[mask_user |-> Text(<<"w">>), mask_domain |-> Flag(FALSE), domain_choices |-> Flag(FALSE), draw |-> 1],
        [mask_user |-> Flag(FALSE), mask_domain |-> Flag(FALSE), domain_choices |-> Flag(FALSE), draw |-> 1],
        [mask_user |-> Flag(FALSE), mask_domain |-> Text(<<"d">>), domain_choices |-> Texts(<<<<"y">>>>), draw |-> 1],
        [mask_user |-> Flag(FALSE), mask_domain |-> Flag(TRUE), domain_choices |-> Text(<<"y">>), draw |-> 1]}

AddMaskedMailColumnCall ==
  \E a \in MailArgs : \E base \in {"m", "q"} : \E desc \in BOOLEAN : \E f \in 0..6 :
    /\ (base = "m" /\ ~desc /\ a.domain_choices = Texts(<<<<"x">>, <<"y">>>>)) \/ f = 0
    /\ desc => a.domain_choices.k = "list"
    /\ nops < MaxMailOps
    /\ Call("add_masked_mail_column",
            [base |-> base, name |-> None, mask_user |-> a.mask_user, mask_domain |-> a.mask_domain,
             domain_choices |-> a.domain_choices, draw |-> a.draw, desc |-> desc, f |-> f],
            AddMaskedMailColumn(Cur, base, None, a.mask_user, a.mask_domain, a.domain_choices,
                                a.draw, desc, f))

MaskMailColumnCall ==
  \E a \in MailArgs : \E fl \in {NoFaults, [NoFaults EXCEPT !.adopt = 3], [NoFaults EXCEPT !.cleanup = 1]} :
    /\ a.domain_choices.k = "list" \/ fl = NoFaults
    /\ nops < MaxMailOps
    /\ Call("mask_mail_column",
            [column |-> "m", mask_user |-> a.mask_user, mask_domain |-> a.mask_domain,
             domain_choices |-> a.domain_choices, draw |-> a.draw, fl |-> fl],
            MaskMailColumn(Cur, "m", a.mask_user, a.mask_domain, a.domain_choices, a.draw, FALSE, fl))

NextMail ==
  \/ AddMaskedMailColumnCall
  \/ MaskMailColumnCall

SpecMail == InitMail /\ [][NextMail]_vars

\* The process of the naming generator alone: handles are constructed and
\* the prefix and the separator are set, in any order.
InitNames ==
  /\ naming = Globals
  /\ issued = <<>>
  /\ since = 0
  /\ tab = NoTable
  /\ views = {}
  /\ data = NoData
  /\ last = NoCall
  /\ added = NoAdd
  /\ nops = 0
  /\ equiv = NoEquiv
  /\ threads = NoThreads

NextNames ==
  \/ NewHandle /\ UNCHANGED handle
  \/ SetPrefixCall /\ UNCHANGED handle
  \/ SetSeparatorCall /\ UNCHANGED handle

SpecNames == InitNames /\ [][NextNames]_vars

(***************************************************************************)
(* The integer ranges as a state machine: a handle over a table with one   *)
(* integer column a, whose values are spread wider than a row apart, and   *)
(* add_integer_range_column called with a number or a size of ranges.      *)
(***************************************************************************)
MaxRangeRows == 2
MaxRangeOps == 1
MaxRanges == 4

\* The cells of the integer column: NULL and whole numbers.
RangeCells == {Null, IntC(0 - 3), IntC(1), IntC(5), IntC(6)}

InitRanges ==
  /\ \E n \in 1..MaxRangeRows : \E cells \in [1..n -> RangeCells] :
       tab = MkTable(<<"a">>, <<"BIGINT">>, [i \in 1..n |-> <<cells[i]>>])
  /\ data = TableRel(tab)
  /\ views = {}
  /\ last = NoCall
  /\ added = NoAdd
  /\ nops = 0
  /\ equiv = NoEquiv
  /\ threads = NoThreads
  /\ naming = NextTableName(Globals)
  /\ issued = <<Issue(naming, 1)>>
  /\ since = 1

\* The optional min_range_start: absent, below, inside and above the values.
MinStarts == {None, Some(0 - 5), Some(4), Some(20)}

RangeCall(num_ranges, range_size, only_start, min_start) ==
  /\ nops < MaxRangeOps
  /\ Call("add_integer_range_column",
          [base |-> "a", name |-> "r", num_ranges |-> num_ranges, range_size |-> range_size,
           only_start |-> only_start, min_start |-> min_start, f |-> 0],
          AddIntegerRangeColumn(Cur, nops, "a", "r", num_ranges, range_size,
                                only_start, min_start, 0))

RangeByNumberCall ==
  \E n \in 1..MaxRanges : \E only_start \in BOOLEAN : \E min_start \in MinStarts :
    RangeCall(Some(n), None, only_start, min_start)

RangeBySizeCall ==
  \E n \in 1..MaxRanges : \E only_start \in BOOLEAN : \E min_start \in MinStarts :
    RangeCall(None, Some(n), only_start, min_start)

\* add_age_range_column over the same tables, by number or by size of ranges.
AgeRangeCall ==
  /\ nops < MaxRangeOps
  /\ \E n \in 1..MaxRanges : \E by_number \in BOOLEAN : \E only_start \in BOOLEAN :
     \E min_age \in MinStarts : \E only_adult \in BOOLEAN :
       LET num_ranges == IF by_number THEN Some(n) ELSE None
           range_size == IF by_number THEN None ELSE Some(n)
       IN Call("add_age_range_column",
               [base |-> "a", name |-> "r", min_age |-> min_age, only_adult |-> only_adult,
                num_ranges |-> num_ranges, range_size |-> range_size,
                only_start |-> only_start, f |-> 0],
               AddAgeRangeColumn(Cur, nops, "a", "r", min_age, only_adult,
                                 num_ranges, range_size, only_start, 0))

NextRanges ==
  \/ RangeByNumberCall
  \/ RangeBySizeCall
  \/ AgeRangeCall

SpecRanges == InitRanges /\ [][NextRanges]_vars

(***************************************************************************)
(* The grouping queries over small tables with repeated and NULL keys.     *)
(***************************************************************************)
MaxGroupRows == 3
MaxGroupOps == 2

\* Rows of (a BIGINT, b VARCHAR): two share a, two share b, one has no a.
GroupRowValues ==
  {<<IntC(1), StrC(<<"x">>)>>, <<IntC(1), StrC(<<"y">>)>>,
   <<IntC(2), StrC(<<"x">>)>>, <<Null, StrC(<<"x">>)>>}

InitGroups ==
  /\ \E n \in 0..MaxGroupRows : \E rows \in [1..n -> GroupRowValues] :
       tab = MkTable(<<"a", "b">>, <<"BIGINT", "VARCHAR">>, <<>> \o rows)
  /\ data = TableRel(tab)
  /\ views = {}
  /\ last = NoCall
  /\ added = NoAdd
  /\ nops = 0
  /\ equiv = NoEquiv
  /\ threads = NoThreads
  /\ naming = NextTableName(Globals)
  /\ issued = <<Issue(naming, 1)>>
  /\ since = 1

\* base_column: absent, a column, a list, a column in another case, and a
\* column the table lacks; order_by as given, upper-cased.
GroupArgs ==
  {[base |-> b, order_by |-> o, rev |-> rev, f |-> 0] :
     b \in {NoBase, OneBase("a"), OneBase("b"), ListBase(<<"a", "b">>)},
     o \in {"ASC", "DESC"}, rev \in BOOLEAN}
  \cup {[base |-> b, order_by |-> "ASC", rev |-> FALSE, f |-> 0] : b \in {OneBase("A"), OneBase("q")}}
  \cup {[base |-> OneBase("a"), order_by |-> "UP", rev |-> FALSE, f |-> 0],
        [base |-> OneBase("a"), order_by |-> "ASC", rev |-> FALSE, f |-> 1]}

GroupsCall ==
  /\ nops < MaxGroupOps
  /\ \E a \in GroupArgs : Call("groups", a, Groups(Cur, a.base, a.order_by, a.rev, a.f))

GroupingsCall ==
  /\ nops < MaxGroupOps
  /\ \E a \in GroupArgs : Call("groupings", a, Groupings(Cur, a.base, a.order_by, a.rev, a.f))

\* h.sql('SELECT a FROM TABLE'), in place.
SelectCall ==
  /\ nops < MaxGroupOps
  /\ LET a == [stmt |-> [kind |-> "select", cols |-> <<"a">>], in_place |-> TRUE, f |-> 0]
     IN Call("sql", a, Sql(Cur, a.stmt, a.in_place, a.f))

NextGroups ==
  \/ GroupsCall
  \/ GroupingsCall
  \/ SelectCall

SpecGroups == InitGroups /\ [][NextGroups]_vars

(***************************************************************************)
(* The masking transform alone: _mask_value_for_duckdb is applied to one   *)
(* value.  last.args holds the arguments and last.ret the returned text,   *)
(* "pending" until the transform has been applied.                         *)
(***************************************************************************)
MaxMask == 3

\* The values handed to the transform: Python ints and strs.
MaskValues ==
  {IntC(0 - 12), IntC(0 - 123), IntC(0), IntC(7), IntC(123),
   StrC(<<"-", "1", "2">>), StrC(<<"-">>), StrC(<<"-", "a", "1">>), StrC(<<"a", "b">>),
   StrC(<<>>), StrC(<<"a", "b", "c", "d">>), StrC(<<"1", "-", "2">>)}

MaskChars == {<<"*">>, <<"#", "x">>}

InitMask ==
  /\ naming = Globals
  /\ issued = <<>>
  /\ since = 0
  /\ tab = NoTable
  /\ views = {}
  /\ data = NoData
  /\ \E value \in MaskValues, ml \in 0..MaxMask, mr \in 0..MaxMask, chs \in MaskChars :
       last = [NoCall EXCEPT !.op = "mask_value", !.ret = "pending",
                             !.args = [value |-> value, ml |-> ml, mr |-> mr, chs |-> chs]]
  /\ added = NoAdd
  /\ nops = 0
  /\ equiv = NoEquiv
  /\ threads = NoThreads

MaskValueCall ==
  /\ last.op = "mask_value"
  /\ last.ret = "pending"
  /\ last' = [last EXCEPT !.ret = MaskValue(last.args.value, last.args.ml,
                                            last.args.mr, last.args.chs)]
  /\ nops' = nops + 1
  /\ UNCHANGED <<tab, views, data, added, equiv, names, threads>>

NextMask == MaskValueCall

SpecMask == InitMask /\ [][NextMask]_vars

(***************************************************************************)
(* Two column rewrites on one handle, statement by statement.  Each call   *)
(* is a thread of its own: it plans its query from self.data.columns,      *)
(* fetches the result into its local new_data, drops the canonical table,  *)
(* creates it again from new_data and rebinds self.data.  In mode          *)
(* "sequential" a thread moves only while the other one is not inside a    *)
(* call; in mode "interleaved" the threads alternate at any statement.     *)
(***************************************************************************)
\* The calls the two threads make.
SwapCalls ==
  {[op |-> "add_column", name |-> "z", source |-> ""],
   [op |-> "drop_column", name |-> "b", source |-> ""],
   [op |-> "replace_column", name |-> "a", source |-> "b"]}

Other(p) == 3 - p

\* Thread p may execute its next statement.
MayStep(p) ==
  \/ threads.mode = "interleaved"
  \/ threads.t[Other(p)].pc \in {"idle", "done"}

\* Thread p ends its call with the outcome out.
Finish(p, out) == [threads EXCEPT !.t[p].pc = "done", !.t[p].out = out]

\* A statement that needs the canonical table found none.
Missed(th) == [th EXCEPT !.missing = TRUE]

\* The query a call builds out of the columns cols read from self.data.
SwapQuery(th, t) ==
  IF th.op = "add_column"
  THEN PositionalJoin(t, th.cols, Vec(RowCount(t)), "BIGINT", th.name)
  ELSE IF th.op = "drop_column"
  THEN LET keep == SelectSeq(th.cols, LAMBDA c : Lower(c) /= Lower(th.name))
       IN Project(t, keep, StoredNames(t, keep))
  ELSE LET srcs == [i \in 1..Len(th.cols) |->
                      IF Lower(th.cols[i]) = Lower(th.name) THEN th.source ELSE th.cols[i]]
           outs == [i \in 1..Len(th.cols) |->
                      IF Lower(th.cols[i]) = Lower(th.name) THEN th.cols[i]
                      ELSE StoredName(t, th.cols[i])]
       IN Project(t, srcs, outs)

\* A variant of the rebinding that leaves self.data as it is.
KeepBound(t, d) == d

\* self.data = self.cx.table(self._tablename)
Rebind(t, d) == TableRel(t)

InitSwap ==
  /\ tab = InitTable(MaxRows, FALSE)
  /\ data \in {TableRel(tab), QueryRel(<<"a">>)}
  /\ views = {}
  /\ last = NoCall
  /\ added = NoAdd
  /\ nops = 0
  /\ equiv = NoEquiv
  /\ naming = NextTableName(Globals)
  /\ issued = <<Issue(naming, 1)>>
  /\ since = 1
  /\ \E mode \in {"sequential", "interleaved"} : threads = [NoThreads EXCEPT !.mode = mode]

\* The call starts: the checks that need no statement, and for add_column
\* the registration of the view; drop_column and replace_column build their
\* query at once.
BeginCall(p) ==
  /\ threads.t[p].pc = "idle"
  /\ MayStep(p)
  /\ \E c \in SwapCalls :
       LET th == [NoThread EXCEPT !.op = c.op, !.name = c.name, !.source = c.source, !.vid = p]
           known(n) == InList(Lower(n), LowerAll(data.cols))
       IN IF c.op = "add_column"
          THEN /\ threads' = [threads EXCEPT !.t[p] = [th EXCEPT !.pc = "count"]]
               /\ views' = views \cup {p}
          ELSE /\ views' = views
               /\ IF ~known(c.name) \/ (c.op = "replace_column" /\ ~known(c.source))
                  THEN threads' = [threads EXCEPT !.t[p] = [th EXCEPT !.pc = "done", !.out = "ValueError"]]
                  ELSE IF c.op = "drop_column" /\ Len(data.cols) = 1
                  THEN threads' = [threads EXCEPT !.t[p] = [th EXCEPT !.pc = "done", !.out = "ValueError"]]
                  ELSE threads' = [threads EXCEPT !.t[p] = [th EXCEPT !.pc = "select", !.cols = data.cols]]
  /\ UNCHANGED <<tab, data, last, added, nops, equiv, names>>

\* add_column: SELECT count(*) of the table and of the view, then the query
\* is built from self.data.columns.  The counts are outside the try block:
\* an error leaves the view registered.
CountRows(p) ==
  /\ threads.t[p].pc = "count"
  /\ MayStep(p)
  /\ IF tab.exists
     THEN threads' = [threads EXCEPT !.t[p].pc = "select", !.t[p].cols = data.cols]
     ELSE threads' = Missed(Finish(p, "EngineError"))
  /\ UNCHANGED <<tab, views, data, last, added, nops, equiv, names>>

\* new_data = self.cx.execute(sql_query).fetch_arrow_table()
SelectNewData(p) ==
  /\ threads.t[p].pc = "select"
  /\ MayStep(p)
  /\ LET q == SwapQuery(threads.t[p], tab)
     IN IF q.ok
        THEN /\ threads' = [threads EXCEPT !.t[p].pc = "drop", !.t[p].new_data = q]
             /\ views' = views
        ELSE /\ threads' = IF tab.exists THEN Finish(p, "EngineError")
                           ELSE Missed(Finish(p, "EngineError"))
             /\ views' = views \ {threads.t[p].vid}
  /\ UNCHANGED <<tab, data, last, added, nops, equiv, names>>

\* DROP TABLE IF EXISTS
DropTable(p) ==
  /\ threads.t[p].pc = "drop"
  /\ MayStep(p)
  /\ tab' = NoTable
  /\ threads' = IF tab.exists THEN [threads EXCEPT !.t[p].pc = "create"]
                ELSE Missed([threads EXCEPT !.t[p].pc = "create"])
  /\ UNCHANGED <<views, data, last, added, nops, equiv, names>>

\* CREATE TABLE ... AS SELECT * FROM new_data
CreateTable(p) ==
  /\ threads.t[p].pc = "create"
  /\ MayStep(p)
  /\ IF tab.exists
     THEN /\ tab' = tab
          /\ threads' = Finish(p, "EngineError")
          /\ views' = views \ {threads.t[p].vid}
     ELSE /\ tab' = LET n == threads.t[p].new_data IN MkTable(n.cols, n.types, n.vals)
          /\ threads' = [threads EXCEPT !.t[p].pc = "bind"]
          /\ views' = views
  /\ UNCHANGED <<data, last, added, nops, equiv, names>>

\* self.data = self.cx.table(self._tablename), the finally block, return self
BindData(p) ==
  /\ threads.t[p].pc = "bind"
  /\ MayStep(p)
  /\ IF tab.exists
     THEN /\ data' = Rebind(tab, data)
          /\ threads' = Finish(p, "ok")
     ELSE /\ data' = data
          /\ threads' = Missed(Finish(p, "EngineError"))
  /\ views' = views \ {threads.t[p].vid}
  /\ UNCHANGED <<tab, last, added, nops, equiv, names>>

NextSwap ==
  \E p \in 1..2 :
    \/ BeginCall(p)
    \/ CountRows(p)
    \/ SelectNewData(p)
    \/ DropTable(p)
    \/ CreateTable(p)
    \/ BindData(p)

SpecSwap == InitSwap /\ [][NextSwap]_vars

(***************************************************************************)
(* Properties of the column operations.                                    *)
(***************************************************************************)
ColumnOps ==
  {"add_column", "drop_column", "replace_column", "rename_column", "set_column_type",
   "add_masked_column", "add_gaussian_noise_column", "add_impulse_noise_column",
   "add_salt_pepper_noise_column", "add_integer_range_column", "add_float_range_column"}

\* Two tables with the same column names in the same order and the same
\* cells in the same row order.
SameContent(t1, t2) ==
  /\ t1.exists = t2.exists
  /\ t1.cols = t2.cols
  /\ Vals(t1) = Vals(t2)

\* self.data is bound to the canonical table and lists its columns.
Fresh(s) == s.t.exists /\ s.data = TableRel(s.t)

\* C1: a successful column-level operation on a handle with loaded data
\* leaves the canonical table with the row count it had before the call.
C1_RowCountKept ==
  (last.op \in ColumnOps /\ last.out = "ok" /\ last.pre.data.kind /= "none")
    => RowCount(tab) = RowCount(last.pre.t)

\* A successful impulse-noise call that changed cells of a table of MaxRows rows.
C1_Witness ==
  /\ last.op = "add_impulse_noise_column"
  /\ last.out = "ok"
  /\ RowCount(last.pre.t) = MaxRows
  /\ Len(tab.cols) = Len(last.pre.t.cols) + 1
  /\ last.args.base = "a"
  /\ \E r \in 1..RowCount(tab) :
       /\ tab.rows[r].vals[1].k = "int"
       /\ tab.rows[r].vals[Len(tab.cols)].k = "dbl"
       /\ tab.rows[r].vals[Len(tab.cols)].d /= tab.rows[r].vals[1].i

\* C2: after a successful add_column(vector, name) the columns are the
\* previous columns in their order followed by name, every previous column
\* holds the values it held, and the new column holds vector[i] at row i.
C2_AddColumnAppends ==
  (last.op = "add_column" /\ last.out = "ok")
    => /\ tab.cols = Append(last.pre.t.cols, last.args.name)
       /\ RowCount(tab) = RowCount(last.pre.t)
       /\ \A r \in 1..RowCount(tab) :
            tab.rows[r].vals = Append(last.pre.t.rows[r].vals, Vec(last.args.n)[r])

\* The inputs the column operations are to reject, read against the table
\* the call finds.
InvalidInput(c) ==
  \/ /\ c.op = "add_column"
     /\ ~IsIdentifier(c.args.name) \/ c.args.n /= RowCount(c.pre.t)
  \/ /\ c.op = "drop_column"
     /\ c.args.names /= <<>>
     /\ \/ \E i \in 1..Len(c.args.names) : ~HasCol(c.pre.t, c.args.names[i])
        \/ \A i \in 1..Len(c.pre.t.cols) :
             InList(Lower(c.pre.t.cols[i]), LowerAll(c.args.names))
  \/ /\ c.op = "replace_column"
     /\ \/ Len(c.args.targets) /= Len(c.args.sources)
        \/ \E i \in 1..Len(c.args.targets) : ~HasCol(c.pre.t, c.args.targets[i])
        \/ \E i \in 1..Len(c.args.sources) : ~HasCol(c.pre.t, c.args.sources[i])
  \/ /\ c.op = "set_column_type"
     /\ \/ Len(c.args.names) /= Len(c.args.types)
        \/ \E i \in 1..Len(c.args.names) : ~HasCol(c.pre.t, c.args.names[i])

\* The branches of the four operations that raise a validation error.
ValidationErrs ==
  {"length_mismatch", "not_identifier", "unknown_column", "drop_all", "list_length"}

C4_AddDropRoundTrip ==
  (added.some /\ last.op = "drop_column" /\ last.out = "ok"
     /\ last.args.names = <<added.name>>)
    => SameContent(tab, added.t)

\* The table a successful replace_column(targets, sources) is to leave.
Replaced(t, targets, sources) ==
  [r \in 1..RowCount(t) |->
     [i \in 1..Len(t.cols) |->
        IF InList(Lower(t.cols[i]), LowerAll(targets))
        THEN t.rows[r].vals[ColPos(t, sources[IndexOf(Lower(t.cols[i]), LowerAll(targets))])]
        ELSE t.rows[r].vals[i]]]

\* C5: after a successful replace_column(targets, sources) the table has the
\* column names and order it had, each target holds row for row what its
\* source held, and every other column holds what it held.
C5_ReplaceColumn ==
  (last.op = "replace_column" /\ last.out = "ok")
    => /\ tab.cols = last.pre.t.cols
       /\ Vals(tab) = Replaced(last.pre.t, last.args.targets, last.args.sources)

\* C6: after a successful public operation on a handle with loaded data,
\* self.data is a relation over the canonical table.
C6_DataOverCanonicalTable ==
  (last.op /= "none" /\ last.out = "ok" /\ last.pre.data.kind /= "none")
    => data.kind = "table"

\* C7: on every exit path of add_column on which the temporary view was
\* registered, the view is no longer registered when the call returns.
C7_ViewUnregistered ==
  (last.op = "add_column" /\ last.err \notin {"no_data", "not_identifier"})
    => last.vid \notin views

\* The table the last call is to leave when no statement fails.
Intended(c) ==
  CASE c.op = "add_column" ->
         AddColumn(c.pre, c.vid, Vec(c.args.n), "BIGINT", c.args.name, 0).s.t
    [] c.op = "drop_column" -> DropColumn(c.pre, c.args.names, 0).s.t
    [] c.op = "replace_column" -> ReplaceColumn(c.pre, c.args.targets, c.args.sources, 0).s.t
    [] OTHER -> c.pre.t

\* C8: when a statement of the swap step of add_column, drop_column or
\* replace_column raises, the canonical table exists afterwards and is
\* entirely the table before the call or entirely the new table.
C8_SwapAllOrNothing ==
  (last.op \in {"add_column", "drop_column", "replace_column"}
     /\ last.out = "EngineError" /\ last.err \in {"select", "drop", "create"})
    => /\ tab.exists
       /\ SameContent(tab, last.pre.t) \/ SameContent(tab, Intended(last))

\* A pair of rename_column whose new name is the name of a column of the
\* table other than the one the pair renames.
Collides(c) ==
  /\ Len(c.args.olds) = Len(c.args.news)
  /\ \E i \in 1..Len(c.args.news) :
       /\ HasCol(c.pre.t, c.args.news[i])
       /\ Lower(c.args.news[i]) /= Lower(c.args.olds[i])

\* C9: rename_column with a new name that collides with another column of
\* the table is rejected before any rename executes: the call raises, and no
\* column has been renamed.
C9_RenameCollisionRejected ==
  (last.op = "rename_column" /\ Collides(last))
    => /\ last.out /= "ok"
       /\ tab.cols = last.pre.t.cols

\* C10: the k-th name since the generator was last created is the prefix and
\* the separator in force at its call followed by k - 1; setting the prefix
\* leaves the sequence where it is and setting the separator restarts it at 0.
C10_GeneratedNames ==
  \A i \in 1..Len(issued) :
    issued[i].name = issued[i].prefix \o issued[i].separator \o NatDigits(issued[i].k - 1)

\* Three names, the second after a change of prefix and the third the first
\* after a call of set_table_name_separator.
C10_Witness ==
  /\ Len(issued) = 3
  /\ issued[1].k = 1 /\ issued[2].k = 2 /\ issued[3].k = 1
  /\ issued[2].prefix /= issued[1].prefix
  /\ issued[2].separator = issued[1].separator
  /\ issued[3].separator /= issued[2].separator
  /\ issued[3].name = <<"c", "s", "-", "0">>

\* C11: over any sequence of handle constructions, set_table_name_prefix
\* calls and set_table_name_separator calls, no two handles are assigned the
\* same canonical table name.
C11_NamesUnique ==
  \A i, j \in 1..Len(issued) : i /= j => issued[i].name /= issued[j].name

(***************************************************************************)
(* Properties of the generators.                                           *)
(***************************************************************************)
Replacers ==
  {"gaussian_column", "impulse_column", "salt_pepper_column", "integer_range_column",
   "age_range_column", "mask_column", "mask_mail_column", "syn_date_column", "syn_city_column"}

\* C12: when the stage of a column-replacing generator has added the staged
\* column and the call then raises (in the rest of the stage, the adoption
\* or the cleanup), the staged column is not a column of the canonical table.
C12_StagedColumnDropped ==
  (last.op \in Replacers /\ last.out /= "ok" /\ last.staged.added)
    => ~HasCol(tab, last.staged.name)

\* C13: the error a generator raises is the error of the step that failed
\* first, also when the handling of that error or the cleanup fails too.
C13_OriginalErrorSurfaced ==
  (/\ last.op \in {"gaussian_column", "impulse_column", "salt_pepper_column",
                   "integer_range_column", "age_range_column", "syn_date_column",
                   "add_syn_city_column", "syn_city_column"}
   /\ last.out /= "ok")
    => ErrorOf(last) = last.first

\* The calls C14 is about: no statement fails for a reason outside the
\* arguments, the table has rows, the base column is in it with a type the
\* method allows, and a date range is given.
ValidReplacement(c) ==
  /\ c.op \in {"mask_column", "mask_mail_column", "syn_date_column"}
  /\ c.args.fl = NoFaults
  /\ c.pre.data.kind /= "none"
  /\ RowCount(c.pre.t) > 0
  /\ InList(c.args.column, c.pre.t.cols)
  /\ c.op = "mask_column" => c.pre.t.types[ColPos(c.pre.t, c.args.column)] \in {"BIGINT", "VARCHAR"}
  /\ c.op = "mask_mail_column" => c.pre.t.types[ColPos(c.pre.t, c.args.column)] = "VARCHAR"
  /\ c.op = "syn_date_column" =>
       /\ c.args.start_date /= None \/ c.args.end_date /= None
       /\ c.args.start_date /= None => ParseDate(Get(c.args.start_date)).ok
       /\ c.args.end_date /= None => ParseDate(Get(c.args.end_date)).ok

\* C14: such a call of mask_column, mask_mail_column or syn_date_column
\* returns; afterwards the table has the columns it had, in their order, and
\* as many rows, no staged column remains, the other columns hold what they
\* held and a masked column holds the masked values.
C14_ThreePhasesComplete ==
  ValidReplacement(last) =>
    /\ last.out = "ok"
    /\ tab.cols = last.pre.t.cols
    /\ RowCount(tab) = RowCount(last.pre.t)
    /\ ~HasCol(tab, last.staged.name)
    /\ \A i \in 1..Len(tab.cols) :
         IF tab.cols[i] /= last.args.column
         THEN Column(tab, tab.cols[i]) = Column(last.pre.t, tab.cols[i])
         ELSE last.op = "mask_column" =>
                \A r \in 1..RowCount(tab) :
                  Column(tab, tab.cols[i])[r] =
                    IF IsNull(Column(last.pre.t, tab.cols[i])[r]) THEN Null
                    ELSE StrC(MaskValue(Column(last.pre.t, tab.cols[i])[r],
                                        last.args.ml, last.args.mr, last.args.chs))

(***************************************************************************)
(* Properties of the masking transform.                                    *)
(***************************************************************************)
Repeat(ch, n) == [i \in 1..n |-> ch]

\* sign + body for the stringified value full, with the sign taken off when
\* neg: body is all mask characters when ml + mr covers it, and otherwise
\* ml mask characters, the untouched middle, mr mask characters.
Masked(full, neg, ml, mr, ch) ==
  LET s == IF neg THEN Tail(full) ELSE full
      n == Len(s)
      body == IF ml + mr >= n THEN Repeat(ch, n)
              ELSE Repeat(ch, ml) \o SubSeq(s, ml + 1, n - mr) \o Repeat(ch, mr)
  IN (IF neg THEN <<"-">> ELSE <<>>) \o body

Stringified(v) == IF v.k = "int" THEN IntText(v.i) ELSE v.s

MaskApplied == last.op = "mask_value" /\ last.ret /= "pending"

\* C15 as stated: the transform returns sign + body where the sign is "-"
\* exactly when the value is a negative integer, and body masks ml characters
\* on the left and mr on the right of the stringified value without that sign
\* (all of it when ml + mr reaches its length).
C15_SignOnlyForIntegers ==
  MaskApplied =>
    LET a == last.args
    IN last.ret = Masked(Stringified(a.value), a.value.k = "int" /\ a.value.i < 0,
                         a.ml, a.mr, a.chs[1])

\* C15: the transform returns sign + body where the sign is "-" exactly when
\* the value is a negative integer or a string made of "-" followed by
\* digits only; body masks ml characters on the left and mr on the right of
\* the stringified value without that sign, all of it when ml + mr reaches
\* its length, and has the length of that unsigned text.
C15_MaskShape ==
  MaskApplied =>
    LET a == last.args
        full == Stringified(a.value)
        neg == \/ a.value.k = "int" /\ a.value.i < 0
               \/ /\ a.value.k = "str"
                  /\ Len(full) > 1
                  /\ full[1] = "-"
                  /\ \A i \in 2..Len(full) : full[i] \in {"0", "1", "2", "3", "4", "5", "6", "7", "8", "9"}
    IN /\ last.ret = Masked(full, neg, a.ml, a.mr, a.chs[1])
       /\ Len(last.ret) = Len(full)

\* A negative integer masked on both sides with its middle digit kept.
C15_Witness ==
  /\ MaskApplied
  /\ last.args.value = IntC(0 - 123)
  /\ last.args.ml = 1
  /\ last.args.mr = 1
  /\ last.ret = <<"-", "*", "2", "*">>

(***************************************************************************)
(* Properties of the masking of mail addresses.                            *)
(***************************************************************************)
\* A first call of add_masked_mail_column on column m that masks the domain
\* with a list of candidate domains only, and returned.
ChoicesCall(c) ==
  /\ c.op = "add_masked_mail_column"
  /\ c.out = "ok"
  /\ c.args.base = "m"
  /\ c.args.domain_choices.k = "list"
  /\ c.args.mask_user = Flag(FALSE)
  /\ c.args.mask_domain = Flag(TRUE)
  /\ ~HasCol(c.pre.t, "masked_m")
  /\ c.pre.data = TableRel(c.pre.t)

\* The rows of the table before the call whose address does not end in a
\* candidate domain; the new column is NULL in all of them.
EligibleBefore(c) ==
  {r \in 1..RowCount(c.pre.t) :
     \A i \in 1..Len(c.args.domain_choices.l) :
       ~EndsWith(Column(c.pre.t, "m")[r].s, c.args.domain_choices.l[i])}

\* The eligible rows that received candidate i.
AssignedTo(c, i) ==
  {r \in EligibleBefore(c) :
     Column(tab, "masked_m")[r] =
       StrC(ReplaceDomain(Column(c.pre.t, "m")[r].s, c.args.domain_choices.l[i]))}

\* C16: with k candidate domains and E eligible rows, each of the first
\* k - 1 candidates is assigned to exactly floor(E / k) rows and the last one
\* to the remaining E - (k - 1) * floor(E / k) rows, in either row ordering.
C16_EvenShares ==
  ChoicesCall(last) =>
    LET k == Len(last.args.domain_choices.l)
        E == Cardinality(EligibleBefore(last))
    IN \A i \in 1..k :
         Cardinality(AssignedTo(last, i)) =
           IF i < k THEN E \div k ELSE E - (k - 1) * (E \div k)

(***************************************************************************)
(* Properties of the noise methods.                                        *)
(***************************************************************************)
ImpulseCall == last.op = "add_impulse_noise_column"

\* The number of the two optional arguments x, y that are supplied.
Supplied(x, y) == (IF IsNone(x) THEN 0 ELSE 1) + (IF IsNone(y) THEN 0 ELSE 1)

\* The call raised a validation error and left the handle as it was.
RejectedUntouched == last.out = "ValueError" /\ Cur = last.pre

\* C17 as stated: add_impulse_noise_column raises a validation error with the
\* table unaltered unless exactly one of sample_pct, n_samples and exactly one
\* of impulse_mag, impulse_pct is supplied.
C17_ExactlyOneOfEachPair ==
  (/\ ImpulseCall
   /\ \/ Supplied(last.args.sample.sample_pct, last.args.sample.n_samples) /= 1
      \/ Supplied(last.args.impulse_mag, last.args.impulse_pct) /= 1)
    => RejectedUntouched

\* C17: add_impulse_noise_column raises a validation error with the table
\* unaltered when neither sample_pct nor n_samples is supplied or neither
\* impulse_mag nor impulse_pct is supplied.
C17_AtLeastOneOfEachPair ==
  (/\ ImpulseCall
   /\ \/ Supplied(last.args.sample.sample_pct, last.args.sample.n_samples) = 0
      \/ Supplied(last.args.impulse_mag, last.args.impulse_pct) = 0)
    => RejectedUntouched

\* A call without impulse_mag and impulse_pct on a handle with rows, rejected
\* for that reason.
C17_Witness ==
  /\ ImpulseCall
  /\ Supplied(last.args.impulse_mag, last.args.impulse_pct) = 0
  /\ RowCount(last.pre.t) > 0
  /\ last.err = "no_impulse"
  /\ RejectedUntouched

\* A call of one of the two sampling noise methods that returned, on a table
\* with rows.
SampledCall ==
  /\ last.op \in {"add_impulse_noise_column", "add_salt_pepper_noise_column"}
  /\ last.out = "ok"
  /\ RowCount(last.pre.t) > 0

\* The row positions selected are distinct positions of the table.
DistinctPicks ==
  /\ \A i, j \in 1..Len(last.picks) : i /= j => last.picks[i] /= last.picks[j]
  /\ \A i \in 1..Len(last.picks) : last.picks[i] \in 0..(RowCount(last.pre.t) - 1)

\* C18 as stated: with sample_pct = p on a table of N > 0 rows the number of
\* row positions selected is ceil(p * N / 100); with n_samples = k it is k.
C18_CeilOfShare ==
  SampledCall =>
    LET sm == last.args.sample
        N == RowCount(last.pre.t)
    IN /\ (IsNone(sm.n_samples) /\ ~IsNone(sm.sample_pct))
            => Len(last.picks) = (Get(sm.sample_pct) * N + 99) \div 100
       /\ (~IsNone(sm.n_samples) /\ IsNone(sm.sample_pct))
            => Len(last.picks) = Get(sm.n_samples)

\* C18: when the call returns, with sample_pct = p and no n_samples on a
\* table of N > 0 rows the number of distinct row positions selected is
\* floor(p * N / 100), and 1 where that is 0; with n_samples = k it is k.
C18_FloorOfShare ==
  SampledCall =>
    LET sm == last.args.sample
        N == RowCount(last.pre.t)
        share == (Get(sm.sample_pct) * N) \div 100
    IN /\ DistinctPicks
       /\ (IsNone(sm.n_samples) /\ ~IsNone(sm.sample_pct))
            => Len(last.picks) = (IF share = 0 THEN 1 ELSE share)
       /\ ~IsNone(sm.n_samples) => Len(last.picks) = Get(sm.n_samples)

\* Salt-and-pepper noise on a share of the rows that is not a whole number
\* of rows.
C18_Witness ==
  /\ SampledCall
  /\ last.op = "add_salt_pepper_noise_column"
  /\ IsNone(last.args.sample.n_samples)
  /\ ~IsNone(last.args.sample.sample_pct)
  /\ (Get(last.args.sample.sample_pct) * RowCount(last.pre.t)) % 100 /= 0
  /\ Len(last.picks) >= 1

(***************************************************************************)
(* Properties of the integer ranges.                                       *)
(***************************************************************************)
\* A call of add_integer_range_column on the integer column a that returned
\* and emitted pairs into the new column r.
PairsEmitted ==
  /\ last.op = "add_integer_range_column"
  /\ last.out = "ok"
  /\ last.args.base = "a"
  /\ last.args.name = "r"
  /\ ~last.args.only_start
  /\ HasCol(last.pre.t, "a")
  /\ last.pre.t.types[ColPos(last.pre.t, "a")] = "BIGINT"
  /\ HasCol(tab, "r")

\* The rows with a value, the value of row i and the pair emitted for it.
Valued == {i \in 1..RowCount(last.pre.t) : ~IsNull(Column(last.pre.t, "a")[i])}
ValueAt(i) == Column(last.pre.t, "a")[i].i
PairAt(i) == Column(tab, "r")[i]
TrueMax == CHOOSE m \in {ValueAt(i) : i \in Valued} : \A i \in Valued : ValueAt(i) <= m
TrueMin == CHOOSE m \in {ValueAt(i) : i \in Valued} : \A i \in Valued : ValueAt(i) >= m

\* Every value lies in its pair, and two pairs are the same or disjoint.
Bucketed ==
  /\ RowCount(tab) = RowCount(last.pre.t)
  /\ \A i \in Valued :
       /\ PairAt(i).k = "list"
       /\ PairAt(i).lo <= ValueAt(i)
       /\ ValueAt(i) <= PairAt(i).hi
  /\ \A i, j \in Valued :
       \/ PairAt(i) = PairAt(j)
       \/ PairAt(i).hi < PairAt(j).lo
       \/ PairAt(j).hi < PairAt(i).lo

\* C19 as stated: for every num_ranges or range_size and every optional
\* min_range_start, every row with a value v gets a pair [start, end] with
\* start <= v <= end, and two distinct pairs are disjoint.
C19_ValueInItsRange == PairsEmitted => Bucketed

\* C19: the same when min_range_start is absent or not above the minimum of
\* the column.
C19_ValueInItsRangeFromMin ==
  (/\ PairsEmitted
   /\ \/ IsNone(last.args.min_start)
      \/ Get(last.args.min_start) <= TrueMin)
    => Bucketed

\* Two values in different ranges, with a min_range_start below both.
C19_Witness ==
  /\ PairsEmitted
  /\ last.args.min_start = Some(0 - 5)
  /\ \E i, j \in Valued : PairAt(i).hi < PairAt(j).lo
  /\ Bucketed

\* C20: without min_range_start, no emitted pair ends above the maximum of
\* the column, and the pair of a row holding the maximum ends at it.
C20_EndAtMaximum ==
  (PairsEmitted /\ IsNone(last.args.min_start)) =>
    \A i \in Valued :
      /\ PairAt(i).hi <= TrueMax
      /\ ValueAt(i) = TrueMax => PairAt(i).hi = TrueMax

(***************************************************************************)
(* Properties of the row operations.                                       *)
(***************************************************************************)
\* A call of a row operation that had columns to check on loaded data, and
\* returned.
RowsCall(op) ==
  /\ last.op = op
  /\ last.out = "ok"
  /\ last.args.cols /= <<>>
  /\ last.pre.data.kind /= "none"

\* The positions of the rows of the previous table that satisfy the combined
\* predicate of the call, and the k-th of a set of positions.
Satisfying ==
  {r \in 1..RowCount(last.pre.t) :
     RowTruth(last.pre.t, last.args.cols, last.args.cond, last.args.all_and, r) = "T"}
NotSatisfying == (1..RowCount(last.pre.t)) \ Satisfying
Kth(S, k) == CHOOSE r \in S : Cardinality({x \in S : x < r}) = k - 1

\* Table t holds exactly the rows of the previous table at the positions S,
\* in their previous order and with the previous columns.
HoldsRows(t, S) ==
  /\ t.exists
  /\ t.cols = last.pre.t.cols
  /\ RowCount(t) = Cardinality(S)
  /\ \A k \in 1..RowCount(t) : Vals(t)[k] = Vals(last.pre.t)[Kth(S, k)]

\* C21: after a successful filter_rows the table holds exactly the rows of the
\* previous table that satisfy the combined predicate, in their previous
\* order; it is empty when no row satisfies it.
C21_FilterKeepsSatisfying == RowsCall("filter_rows") => HoldsRows(tab, Satisfying)

\* C22: after a successful remove_rows the table holds exactly the rows of the
\* previous table that do not satisfy the combined predicate, in their
\* previous order and with the same columns; and the rows filter_rows keeps
\* for the same arguments are the other rows of the previous table.
C22_RemoveKeepsTheRest ==
  RowsCall("remove_rows") =>
    /\ HoldsRows(tab, NotSatisfying)
    /\ LET fr == FilterRows(last.pre, last.args.cols, last.args.cond, last.args.all_and, 0)
       IN fr.out = "ok" => HoldsRows(fr.s.t, Satisfying)

\* The last call was a successful grouping query on a handle with data.
GroupsReturned == last.op \in {"groups", "groupings"} /\ last.out = "ok"

\* The columns the call was asked to group by: the named ones, or all columns
\* of the table when none was named.
AskedColumns == IF last.args.base.k = "none" THEN last.pre.t.cols ELSE last.args.base.l

\* The distinct combinations of the asked columns among the rows of the table.
Combinations == Distinct([r \in 1..RowCount(last.pre.t) |-> GroupKey(last.pre.t, AskedColumns, r)])

RECURSIVE SumCounts(_)
SumCounts(rows) == IF rows = <<>> THEN 0 ELSE Head(rows).count + SumCounts(Tail(rows))

\* C23: groups and groupings return one row per distinct combination of the
\* grouping columns (all columns of the table when none is named), the counts
\* of the rows sum to the number of rows of the table, and the canonical
\* table is as it was before the call.
C23_OneRowPerCombination ==
  GroupsReturned =>
    /\ Len(last.rows) = Len(Combinations)
    /\ SumCounts(last.rows) = RowCount(last.pre.t)
    /\ tab = last.pre.t

\* C28: groups with order_by DESC returns its rows in non-increasing order of
\* count, with ASC in non-decreasing order; rows of equal count follow the
\* numeric suffix of their label (in one direction throughout).
C28_CountInAskedDirection ==
  (last.op = "groups" /\ last.out = "ok") =>
    /\ \A i \in 1..Len(last.rows) : \A j \in (i + 1)..Len(last.rows) :
         IF last.args.order_by = "DESC" THEN last.rows[i].count >= last.rows[j].count
         ELSE last.rows[i].count <= last.rows[j].count
    /\ \/ \A i \in 1..Len(last.rows) : \A j \in (i + 1)..Len(last.rows) :
            last.rows[i].count = last.rows[j].count => last.rows[i].n < last.rows[j].n
       \/ \A i \in 1..Len(last.rows) : \A j \in (i + 1)..Len(last.rows) :
            last.rows[i].count = last.rows[j].count => last.rows[i].n > last.rows[j].n

\* The last call named no column at all, on a handle with data.
NothingToDo ==
  /\ last.pre.data.kind /= "none"
  /\ \/ last.op = "drop_column" /\ last.args.names = <<>>
     \/ last.op = "rename_column" /\ last.args.olds = <<>> /\ last.args.news = <<>>
     \/ last.op = "set_column_type" /\ last.args.names = <<>> /\ last.args.types = <<>>
     \/ last.op \in {"filter_rows", "remove_rows"} /\ last.args.cols = <<>>

\* C24: a call with nothing to do raises no error, leaves the canonical table
\* unchanged and returns the handle itself.
C24_NothingToDoReturnsHandle ==
  NothingToDo => last.out = "ok" /\ tab = last.pre.t /\ last.ret = "self"

\* The last call was add_syn_city_column, it returned, and the base column
\* had at most max_uniques distinct values.
CityCall ==
  /\ last.op = "add_syn_city_column"
  /\ last.out = "ok"
  /\ Len(Distinct(Column(last.pre.t, last.args.base))) <= last.args.max_uniques

CityColumnName == IF IsNone(last.args.name) THEN "syn_" \o last.args.base ELSE Get(last.args.name)

\* The rows of the equivalence table that map the original value v.
MappingsOf(v) == {i \in 1..Len(equiv.rows) : equiv.rows[i].key = v}

\* C25: the equivalence table maps every distinct original value of the base
\* column (NULL aside) to exactly one generated value, and the new column of
\* every row with a value holds the generated value mapped to it.
C25_OneCityPerValue ==
  CityCall =>
    /\ equiv.exists
    /\ \A r \in 1..RowCount(last.pre.t) :
         LET v == Column(last.pre.t, last.args.base)[r]
         IN ~IsNull(v) =>
              /\ Cardinality(MappingsOf(v)) = 1
              /\ \A i \in MappingsOf(v) :
                   /\ ~IsNull(equiv.rows[i].city)
                   /\ HasCol(tab, CityColumnName)
                   /\ RowCount(tab) = RowCount(last.pre.t)
                   /\ Column(tab, CityColumnName)[r] = equiv.rows[i].city

\* The last call was add_age_range_column asked to keep adults only.
AdultsCall == last.op = "add_age_range_column" /\ last.args.only_adult

\* The rows of the previous table whose base value is at least min_age.
Adults ==
  {r \in 1..RowCount(last.pre.t) :
     LET v == Column(last.pre.t, last.args.base)[r]
     IN ~IsNull(v) /\ Num(v) >= Get(last.args.min_age)}

\* The start of the range a cell of the new column holds.
RangeStart(c) == IF c.k = "list" THEN c.lo ELSE c.i

NoiseCall ==
  /\ last.op \in {"add_salt_pepper_noise_column", "add_impulse_noise_column"}
  /\ last.out = "ok"
  /\ ~IsNone(last.args.sample.n_samples)
  /\ Get(last.args.sample.n_samples) <= RowCount(last.pre.t)
  /\ RowCount(last.pre.t) > 0

\* The rows of the table the UPDATE statements of the call reached.
Reached == {r \in 1..RowCount(tab) : \E i \in 1..Len(last.picks) : last.picks[i] = tab.rows[r].rid}

\* C27: in every reachable table a noise method asked for k rows alters
\* exactly k distinct rows of the table, and in every other row the new
\* column equals the base value.
C27_ExactlyKRowsAltered ==
  NoiseCall =>
    /\ HasCol(tab, last.args.name)
    /\ RowCount(tab) = RowCount(last.pre.t)
    /\ Cardinality(Reached) = Get(last.args.sample.n_samples)
    /\ \A r \in (1..RowCount(tab)) \ Reached :
         Column(tab, last.args.name)[r] = CastCell(Column(last.pre.t, last.args.base)[r], "DOUBLE").c

\* The names are pairwise distinct, compared without regard to case.
DistinctNames(cols) ==
  \A i \in 1..Len(cols) : \A j \in 1..Len(cols) : i /= j => Lower(cols[i]) /= Lower(cols[j])

\* The last call asked for a new column, or a new name of a column, that an
\* existing column of the table already has.
NameTaken ==
  \/ /\ last.op \in {"add_column", "add_masked_column", "add_gaussian_noise_column",
                     "add_impulse_noise_column", "add_salt_pepper_noise_column",
                     "add_integer_range_column", "add_float_range_column"}
     /\ HasCol(last.pre.t, last.args.name)
  \/ /\ last.op = "rename_column"
     /\ Len(last.args.olds) = Len(last.args.news)
     /\ \E i \in 1..Len(last.args.news) :
          /\ HasCol(last.pre.t, last.args.news[i])
          /\ Lower(last.args.news[i]) /= Lower(last.args.olds[i])

\* C30: the column names of the canonical table are always pairwise distinct
\* without regard to case, and a call whose new name is that of an existing
\* column is rejected and leaves the columns of the table unchanged.
C30_NamesDistinct ==
  /\ tab.exists => DistinctNames(tab.cols)
  /\ NameTaken => last.out /= "ok" /\ tab.exists /\ tab.cols = last.pre.t.cols

\* The canonical table shows what the call of thread th was made for: the
\* column it added, the absence of the column it dropped, or the replaced
\* column holding the values the call selected for it.
Effect(th) ==
  IF th.op = "add_column" THEN HasCol(tab, th.name)
  ELSE IF th.op = "drop_column" THEN tab.exists /\ ~HasCol(tab, th.name)
  ELSE /\ HasCol(tab, th.name)
       /\ LET i == IndexOf(Lower(th.name), LowerAll(th.new_data.cols))
          IN Column(tab, th.name) = [r \in 1..Len(th.new_data.vals) |-> th.new_data.vals[r][i]]

\* Both calls returned successfully and the table lacks the effect of one.
LostRewrite ==
  /\ \A p \in 1..2 : threads.t[p].pc = "done" /\ threads.t[p].out = "ok"
  /\ \E p \in 1..2 : ~Effect(threads.t[p])

\* C29: when the two calls run one after the other, no statement that needs
\* the canonical table finds it missing, and when both have returned
\* successfully the table shows the effect of both.
C29_OneAfterTheOther ==
  threads.mode = "sequential" => ~threads.missing /\ ~LostRewrite

\* Interleaved, both calls return successfully and one effect is lost.
C29_Witness == threads.mode = "interleaved" /\ LostRewrite

====
